---- MODULE Spec2Model ----
(***************************************************************************)
(* Model of the ranked-list video processor (processVideos cloud function).*)
(*                                                                         *)
(* Parts:                                                                  *)
(*   - the text layout engine (getFontForChar, segmentTextByFont,          *)
(*     measureMixedText, fitTextToBox), checked under SpecFit;             *)
(*   - the request handler and the two pipelines (processAutoStitch,       *)
(*     processPreEdited) with their status sink, scratch files and emoji   *)
(*     cache, checked under Spec, and their termination under SpecLive;    *)
(*   - segmentTextByFont and drawMixedText with failing emoji loads,       *)
(*     checked under SpecDraw;                                             *)
(*   - the overlay images as lists of canvas calls, checked under          *)
(*     SpecRender;                                                         *)
(*   - two overlapping sessions of the handler of index.js and its         *)
(*     cleanup, checked under SpecSessions;                                *)
(*   - the parallel clip processing of part_001, checked under             *)
(*     SpecParallel;                                                       *)
(*   - concurrent jobs drawing emoji through the shared emojiCache,        *)
(*     checked under SpecCache.                                            *)
(* Texts are sequences of one-character strings; "a" stands for a glyph of *)
(* the default font, "c" for a CJK glyph, "e" for an emoji, " " for the    *)
(* space.  Times are integers in tenths of a second.                       *)
(***************************************************************************)
EXTENDS Integers, Sequences, FiniteSets, TLC

(***************************************************************************)
(* Bounds of the model                                                     *)
(***************************************************************************)
MaxTextLen == 4
MaxBoxWidth == 8
MaxInitialFontSize == 5
MaxLinesBound == 2

MaxClips == 3
MaxRanks == 3
MaxMarks == 2

VARIABLES fitArgs, fitRes

fitVars == <<fitArgs, fitRes>>

VARIABLES req, pc, i, error, response, statusFile, statusLog, webhookLog,
          tempFiles, disk, emojiCache, dl, up, processed, overlays,
          rankPaths, plan, ffmpegLog

jobVars == <<req, pc, i, error, response, statusFile, statusLog, webhookLog,
             tempFiles, disk, emojiCache, dl, up, processed, overlays,
             rankPaths, plan, ffmpegLog>>

\* The job variables but the emoji cache.
jobRest == <<req, pc, i, error, response, statusFile, statusLog, webhookLog,
             tempFiles, disk, dl, up, processed, overlays, rankPaths, plan,
             ffmpegLog>>

VARIABLES drawArgs, drawRes

drawVars == <<drawArgs, drawRes>>

VARIABLES renArgs, renOut

renVars == <<renArgs, renOut>>

VARIABLES par

VARIABLES ses

VARIABLES cch

\* The variables of the checks that stand beside the job and fitTextToBox.
auxVars == <<drawArgs, drawRes, renArgs, renOut, par, ses, cch>>

vars == <<fitArgs, fitRes, req, pc, i, error, response, statusFile, statusLog,
          webhookLog, tempFiles, disk, emojiCache, dl, up, processed, overlays,
          rankPaths, plan, ffmpegLog, drawArgs, drawRes, renArgs, renOut,
          par, ses, cch>>

(***************************************************************************)
(* Text layout engine                                                      *)
(***************************************************************************)
Chars == {"a", "c", "e", " "}

RECURSIVE TextsOfLen(_)
TextsOfLen(n) ==
  IF n = 0 THEN {<<>>}
  ELSE {Append(t, ch) : t \in TextsOfLen(n - 1), ch \in Chars}

Texts == UNION {TextsOfLen(n) : n \in 0..MaxTextLen}

\* getFontForChar: emoji first, then the CJK ranges, else the default font.
getFontForChar(char) ==
  IF char = "e" THEN "Emoji"
  ELSE IF char = "c" THEN "Noto Sans CJK SC"
  ELSE "CustomFont"

\* As segmentLoop, without `segments.push(currentSegment)' where the font
\* changes.
RECURSIVE segmentLoop_NoPushOnChange(_, _, _, _)
segmentLoop_NoPushOnChange(text, k, segs, cur) ==
  IF k > Len(text)
  THEN IF cur.text # <<>> THEN Append(segs, cur) ELSE segs
  ELSE LET fontNeeded == getFontForChar(text[k]) IN
       IF cur.text = <<>>
       THEN segmentLoop_NoPushOnChange(text, k + 1, segs,
                                       [text |-> <<text[k]>>, font |-> fontNeeded])
       ELSE IF cur.font = fontNeeded
       THEN segmentLoop_NoPushOnChange(text, k + 1, segs,
                                       [cur EXCEPT !.text = Append(@, text[k])])
       ELSE segmentLoop_NoPushOnChange(text, k + 1, segs,
                                       [text |-> <<text[k]>>, font |-> fontNeeded])

\* segmentTextByFont: one pass over the characters, merging the characters
\* of one font into the current segment; segs is `segments', cur is
\* `currentSegment' (cur.text = <<>> is the initial empty segment).
RECURSIVE segmentLoop(_, _, _, _)
segmentLoop(text, k, segs, cur) ==
  IF k > Len(text)
  THEN IF cur.text # <<>> THEN Append(segs, cur) ELSE segs
  ELSE LET fontNeeded == getFontForChar(text[k]) IN
       IF cur.text = <<>>
       THEN segmentLoop(text, k + 1, segs, [text |-> <<text[k]>>, font |-> fontNeeded])
       ELSE IF cur.font = fontNeeded
       THEN segmentLoop(text, k + 1, segs, [cur EXCEPT !.text = Append(@, text[k])])
       ELSE segmentLoop(text, k + 1, Append(segs, cur),
                        [text |-> <<text[k]>>, font |-> fontNeeded])

\* As segmentTextByFont, with one segment per character.
segmentTextByFont_PerChar(text) ==
  [k \in 1..Len(text) |-> [text |-> <<text[k]>>, font |-> getFontForChar(text[k])]]

segmentTextByFont(text) ==
  IF text = <<>> THEN <<>>
  ELSE segmentLoop(text, 1, <<>>, [text |-> <<>>, font |-> ""])

\* ctx.measureText(s).width of the canvas library: a deterministic glyph
\* metrics oracle, here one em per glyph of the default font, two per CJK
\* glyph, scaled by the font size.
measureText(font, fontSize, s) ==
  IF font = "Noto Sans CJK SC" THEN 2 * fontSize * Len(s) ELSE fontSize * Len(s)

RECURSIVE measureSegments(_, _, _)
measureSegments(segs, k, fontSize) ==
  IF k > Len(segs) THEN 0
  ELSE (IF segs[k].font = "Emoji"
        THEN fontSize * Len(segs[k].text)
        ELSE measureText(segs[k].font, fontSize, segs[k].text))
       + measureSegments(segs, k + 1, fontSize)

measureMixedText(text, fontSize) ==
  measureSegments(segmentTextByFont(text), 1, fontSize)

\* text.split(' '): the words between single spaces, empty words included.
RECURSIVE splitLoop(_, _, _, _)
splitLoop(text, k, words, cur) ==
  IF k > Len(text) THEN Append(words, cur)
  ELSE IF text[k] = " " THEN splitLoop(text, k + 1, Append(words, cur), <<>>)
  ELSE splitLoop(text, k + 1, words, Append(cur, text[k]))

split(text) == splitLoop(text, 1, <<>>, <<>>)

joinTest(currentLine, word) ==
  IF currentLine # <<>> THEN currentLine \o <<" ">> \o word ELSE word

\* The word loop of fitTextToBox (part_002): an overflowing word closes the
\* current line, whatever it holds, and starts the next one.
RECURSIVE wrapLoop(_, _, _, _, _, _)
wrapLoop(words, k, lines, currentLine, boxWidth, fontSize) ==
  IF k > Len(words)
  THEN IF currentLine # <<>> THEN Append(lines, currentLine) ELSE lines
  ELSE LET test == joinTest(currentLine, words[k]) IN
       IF measureMixedText(test, fontSize) <= boxWidth
       THEN wrapLoop(words, k + 1, lines, test, boxWidth, fontSize)
       ELSE wrapLoop(words, k + 1, Append(lines, currentLine), words[k], boxWidth, fontSize)

wrap(text, boxWidth, fontSize) ==
  wrapLoop(split(text), 1, <<>>, <<>>, boxWidth, fontSize)

FallbackFontSize == 10

\* As fitLoop, accepting one line more than maxLines.
RECURSIVE fitLoop_OneLineMore(_, _, _, _)
fitLoop_OneLineMore(text, boxWidth, maxLines, fontSize) ==
  IF fontSize < 1
  THEN [fontSize |-> FallbackFontSize, lines |-> <<text>>]
  ELSE LET lines == wrap(text, boxWidth, fontSize) IN
       IF Len(lines) <= maxLines + 1
       THEN [fontSize |-> fontSize, lines |-> lines]
       ELSE fitLoop_OneLineMore(text, boxWidth, maxLines, fontSize - 2)

RECURSIVE fitLoop(_, _, _, _)
fitLoop(text, boxWidth, maxLines, fontSize) ==
  IF fontSize < 1
  THEN [fontSize |-> FallbackFontSize, lines |-> <<text>>]
  ELSE LET lines == wrap(text, boxWidth, fontSize) IN
       IF Len(lines) <= maxLines
       THEN [fontSize |-> fontSize, lines |-> lines]
       ELSE fitLoop(text, boxWidth, maxLines, fontSize - 2)

\* As fitTextToBox, with the loop started one step below the initial size.
fitTextToBox_SkipInitial(text, boxWidth, maxLines, initialFontSize) ==
  fitLoop(text, boxWidth, maxLines, initialFontSize - 2)

fitTextToBox(text, boxWidth, maxLines, initialFontSize) ==
  fitLoop(text, boxWidth, maxLines, initialFontSize)

\* The word loop of the first fitTextToBox (index.js): it measures with the
\* default font only and never pushes an empty line.
RECURSIVE wrapLoopIndex(_, _, _, _, _, _)
wrapLoopIndex(words, k, lines, currentLine, boxWidth, fontSize) ==
  IF k > Len(words)
  THEN IF currentLine # <<>> THEN Append(lines, currentLine) ELSE lines
  ELSE LET testLine == joinTest(currentLine, words[k]) IN
       IF measureText("CustomFont", fontSize, testLine) <= boxWidth
       THEN wrapLoopIndex(words, k + 1, lines, testLine, boxWidth, fontSize)
       ELSE IF currentLine # <<>>
       THEN wrapLoopIndex(words, k + 1, Append(lines, currentLine), words[k], boxWidth, fontSize)
       ELSE wrapLoopIndex(words, k + 1, Append(lines, words[k]), <<>>, boxWidth, fontSize)

\* The value of a function that falls off its end without a return.
Undefined == [undefined |-> TRUE]

RECURSIVE fitLoopIndex(_, _, _, _)
fitLoopIndex(text, boxWidth, maxLines, fontSize) ==
  IF fontSize < 1
  THEN Undefined
  ELSE LET lines == wrapLoopIndex(split(text), 1, <<>>, <<>>, boxWidth, fontSize) IN
       IF Len(lines) <= maxLines
       THEN [fontSize |-> fontSize, lines |-> lines]
       ELSE fitLoopIndex(text, boxWidth, maxLines, fontSize - 2)

fitTextToBoxIndex(text, boxWidth, maxLines, initialFontSize) ==
  fitLoopIndex(text, boxWidth, maxLines, initialFontSize)

NoResult == [pending |-> TRUE]

\* No call of fitTextToBox is under check.
FitIdle ==
  /\ fitArgs = [text |-> <<>>, boxWidth |-> 1, maxLines |-> 1,
                initialFontSize |-> 1, impl |-> "none"]
  /\ fitRes = NoResult

\* No call of segmentTextByFont or drawMixedText is under check.
DrawIdle ==
  /\ drawArgs = [text |-> <<>>, x |-> 0, y |-> 0, fontSize |-> 1]
  /\ drawRes = NoResult

\* No overlay image is under check.
RenIdle ==
  /\ renArgs = [title |-> <<>>, ranks |-> <<>>, ranksToShow |-> 0, remote |-> "up"]
  /\ renOut = NoResult

\* No job of part_001 runs.
ParOff ==
  [on |-> FALSE, pc |-> "idle", n |-> 0, dl |-> <<>>, proc |-> <<>>,
   results |-> <<>>, finished |-> <<>>, concatList |-> <<>>]

ParIdle == par = ParOff

\* No session of index.js runs.
SesOff ==
  [on |-> FALSE, pc |-> [j \in {"s1", "s2"} |-> "idle"],
   n |-> [j \in {"s1", "s2"} |-> 0], i |-> [j \in {"s1", "s2"} |-> 0],
   disk |-> {}, foreign |-> {}]

SesIdle == ses = SesOff

\* No concurrent drawing on the shared emoji cache is under check.
CchOff ==
  [on |-> FALSE, cache |-> {}, loaded |-> {}, got |-> {}, fetches |-> 0,
   failed |-> 0, clears |-> 0,
   job |-> [j \in {"j1", "j2"} |-> [pc |-> "idle", text |-> <<>>, k |-> 0]]]

CchIdle == cch = CchOff

AuxIdle == DrawIdle /\ RenIdle /\ ParIdle /\ SesIdle /\ CchIdle

(***************************************************************************)
(* The job pipelines (part_002)                                            *)
(***************************************************************************)
Range(s) == {s[k] : k \in 1..Len(s)}

Max(a, b) == IF a >= b THEN a ELSE b

VideoModes == {"pre-edited", "auto-stitch", "bogus"}
MarkTimes == {5, 20}
EndTimes == {0, 1, 30}
EmojiUrls == {"u1"}
Uploads == {"video", "thumbnail"}

RECURSIVE SeqsOfLen(_, _)
SeqsOfLen(S, n) ==
  IF n = 0 THEN {<<>>}
  ELSE {Append(q, x) : q \in SeqsOfLen(S, n - 1), x \in S}

\* The timestamps field of a request body: absent, not an array, or an
\* array of marks (each mark stands for its `time').
TimestampInputs ==
  {[kind |-> "missing", marks |-> <<>>], [kind |-> "notalist", marks |-> <<>>]}
  \cup {[kind |-> "list", marks |-> q] :
           q \in UNION {SeqsOfLen(MarkTimes, n) : n \in 0..MaxMarks}}

\* filePaths: absent, or an array of that many paths.
NoFilePaths == [given |-> FALSE, len |-> 0]
NoTimestamps == [kind |-> "missing", marks |-> <<>>]

FilePathsInputs == {NoFilePaths} \cup {[given |-> TRUE, len |-> n] : n \in 0..MaxClips}

NoRequest == [videoMode |-> "none"]
NoPlan == [built |-> FALSE]
NoStatus == [status |-> "PENDING", progress |-> -1, error |-> "none"]

JobInit ==
  /\ req = NoRequest
  /\ pc = "idle"
  /\ i = 0
  /\ error = "none"
  /\ response = 0
  /\ statusFile = NoStatus
  /\ statusLog = <<>>
  /\ webhookLog = <<>>
  /\ tempFiles = <<>>
  /\ disk = {}
  /\ emojiCache = {}
  /\ dl = <<>>
  /\ up = [u \in Uploads |-> "idle"]
  /\ processed = <<>>
  /\ overlays = <<>>
  /\ rankPaths = <<>>
  /\ plan = NoPlan
  /\ ffmpegLog = <<>>

\* updateStatusFile: one write to the status object; a failing write is
\* logged and swallowed (sinkOk = FALSE), the caller continues either way.
updateStatusFile(status, progress, err, sinkOk) ==
  LET entry == [status |-> status, progress |-> progress, error |-> err] IN
  /\ statusLog' = Append(statusLog, entry)
  /\ statusFile' = IF sinkOk THEN entry ELSE statusFile

\* notifyWebsite: one POST to the webhook; failures are logged and swallowed.
notifyWebsite(status, err) ==
  webhookLog' = Append(webhookLog, [status |-> status, error |-> err])

\* The finally block: unlink every path of tempFiles, clear the emoji cache.
unlinkAll(files, paths) == files \ Range(paths)

Finally ==
  /\ disk' = unlinkAll(disk, tempFiles)
  /\ emojiCache' = {}

\* The length of stderr.slice(-n) for a captured text of the given length.
sliceFromEnd(len, n) == IF len <= n THEN len ELSE n

OverlayTail == 300
StitchTail == 300
CompositeTail == 500

\* The lengths of the diagnostic text a failing transcoder has written.
StderrLens == {0, 400, 600}

\* The close event of a transcoder run: its exit code, the length of the
\* text captured from its stderr, and the length of the part of it that the
\* message of the rejection carries (no rejection with code 0).
closeEntry(kind, clip, code, stderr, diag) ==
  [kind |-> kind, clip |-> clip, code |-> code,
   stderr |-> IF code = 0 THEN 0 ELSE stderr,
   diag |-> IF code = 0 THEN 0 ELSE diag]

\* A rejected promise inside the try block: control enters the catch block.
Throw(stage) ==
  /\ error' = stage
  /\ pc' = "fail_status"

validPreEdited_NoLengthCheck(r) ==
  /\ r.filePath
  /\ r.postId
  /\ r.timestamps.kind # "missing"
  /\ r.timestamps.kind = "list"

\* The validation of the main processing branch of the handler.
validPreEdited(r) ==
  /\ r.filePath
  /\ r.postId
  /\ r.timestamps.kind # "missing"
  /\ r.timestamps.kind = "list"
  /\ Len(r.timestamps.marks) # 0

validAutoStitch(r) ==
  /\ r.filePaths.given
  /\ r.postId

\* The processVideos handler for a processing request: route by videoMode,
\* validate, then enter the pipeline (which runs up to its first await).
Request(r) ==
  /\ pc = "idle"
  /\ req' = r
  /\ IF r.videoMode = "pre-edited"
     THEN IF validPreEdited(r)
          THEN pc' = "pe_status5" /\ response' = response
          ELSE pc' = "rejected" /\ response' = 400
     ELSE IF validAutoStitch(r)
          THEN pc' = "as_status5" /\ response' = response
          ELSE pc' = "rejected" /\ response' = 400
  /\ UNCHANGED <<i, error, statusFile, statusLog, webhookLog, tempFiles, disk,
                 emojiCache, dl, up, processed, overlays, rankPaths, plan,
                 ffmpegLog>>
  /\ UNCHANGED <<fitVars, auxVars>>

Requests ==
  {[videoMode |-> "pre-edited", postId |-> p, filePath |-> f, filePaths |-> NoFilePaths,
    ranks |-> L, timestamps |-> ts, endTime |-> e] :
      p \in BOOLEAN, f \in BOOLEAN, L \in 0..MaxRanks, ts \in TimestampInputs,
      e \in EndTimes}
  \cup
  {[videoMode |-> m, postId |-> p, filePath |-> FALSE, filePaths |-> fps,
    ranks |-> L, timestamps |-> NoTimestamps, endTime |-> 0] :
      m \in VideoModes \ {"pre-edited"}, p \in BOOLEAN, fps \in FilePathsInputs,
      L \in 0..MaxRanks}

(***************************************************************************)
(* processAutoStitch                                                       *)
(***************************************************************************)
\* The rank loop of createTextOverlayImage: the indices it draws, in order;
\* reading a rank outside the list gives undefined and fitTextToBox throws.
shownIdx_FromTop(len, ranksToShow, k) == k

shownIdx(len, ranksToShow, k) == (len - ranksToShow) + k

createTextOverlayImage(len, ranksToShow) ==
  [threw |-> \E k \in 0..(ranksToShow - 1) :
                shownIdx(len, ranksToShow, k) \notin 0..(len - 1),
   shown |-> [k \in 1..ranksToShow |-> shownIdx(len, ranksToShow, k - 1)]]

\* The ranksToShow argument of the overlay of the clip at loop index k.
ranksToShowOf(k) == k + 1

\* As clipProgress, counting the clip under way as done and up to 100.
clipProgress_CountsCurrent(k, n) == 10 + (((k + 1) * 90) \div n)

\* 10 + Math.floor((i / local.length) * 60)
clipProgress(k, n) == 10 + ((k * 60) \div n)

\* await updateStatusFile(PROCESSING, 5); then every download is started.
AS_Status5(sinkOk) ==
  /\ pc = "as_status5"
  /\ updateStatusFile("PROCESSING", 5, "none", sinkOk)
  /\ dl' = [k \in 1..req.filePaths.len |-> "flight"]
  /\ pc' = IF req.filePaths.len = 0 THEN "as_status80" ELSE "as_download"
  /\ UNCHANGED <<req, i, error, response, webhookLog, tempFiles, disk,
                 emojiCache, up, processed, overlays, rankPaths, plan, ffmpegLog>>
  /\ UNCHANGED <<fitVars, auxVars>>

\* As AS_DownloadDone, with the clip loop entered at the first download that
\* completes.
AS_DownloadDone_NoJoin(k) ==
  /\ req.videoMode # "pre-edited"
  /\ k \in DOMAIN dl
  /\ dl[k] = "flight"
  /\ dl' = [dl EXCEPT ![k] = "ok"]
  /\ disk' = disk \cup {<<"in", k - 1>>}
  /\ tempFiles' = Append(tempFiles, <<"in", k - 1>>)
  /\ IF pc = "as_download"
     THEN pc' = "as_clip_status" /\ i' = 0
     ELSE UNCHANGED <<pc, i>>
  /\ UNCHANGED <<req, error, response, statusFile, statusLog, webhookLog,
                 emojiCache, up, processed, overlays, rankPaths, plan, ffmpegLog>>
  /\ UNCHANGED <<fitVars, auxVars>>

\* One download completes: the file is on disk and its path is pushed to
\* tempFiles; Promise.all resolves with the last one, if none had failed.
AS_DownloadDone(k) ==
  /\ req.videoMode # "pre-edited"
  /\ k \in DOMAIN dl
  /\ dl[k] = "flight"
  /\ dl' = [dl EXCEPT ![k] = "ok"]
  /\ disk' = disk \cup {<<"in", k - 1>>}
  /\ tempFiles' = Append(tempFiles, <<"in", k - 1>>)
  /\ IF pc = "as_download" /\ \A j \in DOMAIN dl : dl'[j] = "ok"
     THEN pc' = "as_clip_status" /\ i' = 0
     ELSE UNCHANGED <<pc, i>>
  /\ UNCHANGED <<req, error, response, statusFile, statusLog, webhookLog,
                 emojiCache, up, processed, overlays, rankPaths, plan, ffmpegLog>>
  /\ UNCHANGED <<fitVars, auxVars>>

\* One download fails: Promise.all rejects on the first failure; the other
\* downloads stay in flight.
AS_DownloadFail(k) ==
  /\ req.videoMode # "pre-edited"
  /\ k \in DOMAIN dl
  /\ dl[k] = "flight"
  /\ dl' = [dl EXCEPT ![k] = "fail"]
  /\ IF pc = "as_download" THEN Throw("download") ELSE UNCHANGED <<pc, error>>
  /\ UNCHANGED <<req, i, response, statusFile, statusLog, webhookLog, tempFiles,
                 disk, emojiCache, up, processed, overlays, rankPaths, plan,
                 ffmpegLog>>
  /\ UNCHANGED <<fitVars, auxVars>>

\* Top of the clip loop: the progress write, then the two scratch paths of
\* the clip are pushed.
AS_ClipStatus(sinkOk) ==
  /\ pc = "as_clip_status"
  /\ updateStatusFile("PROCESSING", clipProgress(i, req.filePaths.len), "none", sinkOk)
  /\ tempFiles' = tempFiles \o << <<"ov", i>>, <<"proc", i>> >>
  /\ pc' = "as_render"
  /\ UNCHANGED <<req, i, error, response, webhookLog, disk, emojiCache, dl, up,
                 processed, overlays, rankPaths, plan, ffmpegLog>>
  /\ UNCHANGED <<fitVars, auxVars>>

\* createTextOverlayImage and the write of the PNG; fetched is the set of
\* emoji bitmaps loaded on the way, renderOk = FALSE a rasterisation or
\* write fault.  On success the transcoder is spawned for the clip.
AS_Render(fetched, renderOk) ==
  /\ pc = "as_render"
  /\ emojiCache' = emojiCache \cup fetched
  /\ LET img == createTextOverlayImage(req.ranks, ranksToShowOf(i)) IN
     IF img.threw \/ ~renderOk
     THEN /\ Throw("render")
          /\ UNCHANGED <<disk, overlays>>
     ELSE /\ disk' = disk \cup {<<"ov", i>>}
          /\ overlays' = Append(overlays, img.shown)
          /\ pc' = "as_overlay"
          /\ UNCHANGED error
  /\ UNCHANGED <<req, i, response, statusFile, statusLog, webhookLog, tempFiles,
                 dl, up, processed, rankPaths, plan, ffmpegLog>>
  /\ UNCHANGED <<fitVars, auxVars>>

\* applyOverlay: the transcoder closes with an exit code; wrote tells
\* whether it left an output file.
AS_Overlay(code, wrote, stderr) ==
  /\ pc = "as_overlay"
  /\ code = 0 => wrote
  /\ ffmpegLog' = Append(ffmpegLog, closeEntry("overlay", i, code, stderr,
                                              sliceFromEnd(stderr, OverlayTail)))
  /\ disk' = IF wrote THEN disk \cup {<<"proc", i>>} ELSE disk
  /\ IF code = 0
     THEN /\ processed' = Append(processed, <<"proc", i>>)
          /\ i' = i + 1
          /\ pc' = IF i + 1 < req.filePaths.len THEN "as_clip_status" ELSE "as_status80"
          /\ UNCHANGED error
     ELSE /\ Throw("overlay")
          /\ UNCHANGED <<processed, i>>
  /\ UNCHANGED <<req, response, statusFile, statusLog, webhookLog, tempFiles,
                 emojiCache, dl, up, overlays, rankPaths, plan>>
  /\ UNCHANGED <<fitVars, auxVars>>

\* The progress write before the concatenation, the concat list is written
\* and the transcoder spawned in concat mode.
AS_Status80(sinkOk) ==
  /\ pc = "as_status80"
  /\ updateStatusFile("PROCESSING", 80, "none", sinkOk)
  /\ tempFiles' = tempFiles \o << <<"list", 0>>, <<"final", 0>> >>
  /\ disk' = disk \cup {<<"list", 0>>}
  /\ plan' = [built |-> TRUE, mode |-> "auto-stitch", concatList |-> processed]
  /\ pc' = "as_stitch"
  /\ UNCHANGED <<req, i, error, response, webhookLog, emojiCache, dl, up,
                 processed, overlays, rankPaths, ffmpegLog>>
  /\ UNCHANGED <<fitVars, auxVars>>

\* stitchClips closes.
AS_Stitch(code, wrote, stderr) ==
  /\ pc = "as_stitch"
  /\ code = 0 => wrote
  /\ ffmpegLog' = Append(ffmpegLog, closeEntry("stitch", -1, code, stderr,
                                              sliceFromEnd(stderr, StitchTail)))
  /\ disk' = IF wrote THEN disk \cup {<<"final", 0>>} ELSE disk
  /\ IF code = 0 THEN pc' = "status90" /\ UNCHANGED error ELSE Throw("stitch")
  /\ UNCHANGED <<req, i, response, statusFile, statusLog, webhookLog, tempFiles,
                 emojiCache, dl, up, processed, overlays, rankPaths, plan>>
  /\ UNCHANGED <<fitVars, auxVars>>

(***************************************************************************)
(* processPreEdited                                                        *)
(***************************************************************************)
\* [...timestamps].sort((a, b) => a.time - b.time): ascending, stable.
RECURSIVE insertSorted(_, _)
insertSorted(sorted, t) ==
  IF sorted = <<>> THEN <<t>>
  ELSE IF sorted[Len(sorted)] <= t THEN Append(sorted, t)
  ELSE Append(insertSorted(SubSeq(sorted, 1, Len(sorted) - 1), t), sorted[Len(sorted)])

RECURSIVE sortByTime(_)
sortByTime(ts) ==
  IF ts = <<>> THEN <<>>
  ELSE insertSorted(sortByTime(SubSeq(ts, 1, Len(ts) - 1)), ts[Len(ts)])

\* The fade margin of the base overlay, 0.2 s.
TitleLead == 2

titleEndOf(parsedEndTime) == Max(0, parsedEndTime - TitleLead)

rankIndexOf_Forward(len, k) == k

\* The rank drawn at loop index k of the rank overlay loop.
rankIndexOf(len, k) == len - 1 - k

rankProgress(k, len) == 25 + ((k * 35) \div len)

\* sortedTimestamps[timestampSlot]?.time ?? 0
startOf(sortedTimestamps, timestampSlot) ==
  IF timestampSlot + 1 \in DOMAIN sortedTimestamps
  THEN sortedTimestamps[timestampSlot + 1]
  ELSE 0

\* As filterChain, with every rank overlay composited onto [v_base].
filterChain_AllOntoBase(rp, sortedTimestamps, parsedEndTime) ==
  [k \in 1..Len(rp) |->
     [inputIdx |-> (k - 1) + 2,
      rankIndex |-> rp[k].rankIndex,
      start |-> startOf(sortedTimestamps, rp[k].timestampSlot),
      end |-> parsedEndTime,
      prev |-> <<"v_base">>,
      out |-> <<"v", k - 1>>]]

\* The overlay steps of the filter chain, one per entry of rankPaths: input
\* k + 2 is composited onto the previous label under its own window.
filterChain(rp, sortedTimestamps, parsedEndTime) ==
  [k \in 1..Len(rp) |->
     [inputIdx |-> (k - 1) + 2,
      rankIndex |-> rp[k].rankIndex,
      start |-> startOf(sortedTimestamps, rp[k].timestampSlot),
      end |-> parsedEndTime,
      prev |-> IF k = 1 THEN <<"v_base">> ELSE <<"v", k - 2>>,
      out |-> <<"v", k - 1>>]]

\* filterParts: the three parts that scale the source ([0:v] -> [base_v]),
\* scale the base overlay ([1:v] -> [base_ov]) and composite them
\* (-> [v_base]), then for each overlay step a scale part
\* ([inputIdx:v] -> [r<i>]) and an overlay part ([prev][r<i>] -> [v<i>]).
\* <<"in", n>> is the pad of transcoder input n, any other tuple a label.
filterParts(chain) ==
  << [ins |-> << <<"in", 0>> >>, out |-> <<"base_v">>],
     [ins |-> << <<"in", 1>> >>, out |-> <<"base_ov">>],
     [ins |-> << <<"base_v">>, <<"base_ov">> >>, out |-> <<"v_base">>] >>
  \o [p \in 1..(2 * Len(chain)) |->
        LET k == (p + 1) \div 2 IN
        IF p % 2 = 1
        THEN [ins |-> << <<"in", chain[k].inputIdx>> >>, out |-> <<"r", k - 1>>]
        ELSE [ins |-> << chain[k].prev, <<"r", k - 1>> >>, out |-> chain[k].out]]

inputArgsOf(rp) ==
  << <<"source", 0>>, <<"base", 0>> >> \o [k \in 1..Len(rp) |-> rp[k].path]

PE_Status5(sinkOk) ==
  /\ pc = "pe_status5"
  /\ updateStatusFile("PROCESSING", 5, "none", sinkOk)
  /\ pc' = "pe_status10"
  /\ UNCHANGED <<req, i, error, response, webhookLog, tempFiles, disk,
                 emojiCache, dl, up, processed, overlays, rankPaths, plan, ffmpegLog>>
  /\ UNCHANGED <<fitVars, auxVars>>

\* The second progress write, then the download of the source is started.
PE_Status10(sinkOk) ==
  /\ pc = "pe_status10"
  /\ updateStatusFile("PROCESSING", 10, "none", sinkOk)
  /\ dl' = <<"flight">>
  /\ pc' = "pe_download"
  /\ UNCHANGED <<req, i, error, response, webhookLog, tempFiles, disk,
                 emojiCache, up, processed, overlays, rankPaths, plan, ffmpegLog>>
  /\ UNCHANGED <<fitVars, auxVars>>

PE_DownloadDone ==
  /\ pc = "pe_download"
  /\ dl' = <<"ok">>
  /\ disk' = disk \cup {<<"source", 0>>}
  /\ tempFiles' = Append(tempFiles, <<"source", 0>>)
  /\ pc' = "pe_status20"
  /\ UNCHANGED <<req, i, error, response, statusFile, statusLog, webhookLog,
                 emojiCache, up, processed, overlays, rankPaths, plan, ffmpegLog>>
  /\ UNCHANGED <<fitVars, auxVars>>

PE_DownloadFail ==
  /\ pc = "pe_download"
  /\ dl' = <<"fail">>
  /\ Throw("download")
  /\ UNCHANGED <<req, i, response, statusFile, statusLog, webhookLog, tempFiles,
                 disk, emojiCache, up, processed, overlays, rankPaths, plan,
                 ffmpegLog>>
  /\ UNCHANGED <<fitVars, auxVars>>

\* The third progress write; the marks are sorted, the title box measured
\* and the path of the base overlay pushed.
PE_Status20(sinkOk) ==
  /\ pc = "pe_status20"
  /\ updateStatusFile("PROCESSING", 20, "none", sinkOk)
  /\ tempFiles' = Append(tempFiles, <<"base", 0>>)
  /\ pc' = "pe_base"
  /\ UNCHANGED <<req, i, error, response, webhookLog, disk, emojiCache, dl, up,
                 processed, overlays, rankPaths, plan, ffmpegLog>>
  /\ UNCHANGED <<fitVars, auxVars>>

\* createBaseOverlayImage and the write of its PNG.
PE_Base(fetched, renderOk) ==
  /\ pc = "pe_base"
  /\ emojiCache' = emojiCache \cup fetched
  /\ IF renderOk
     THEN /\ disk' = disk \cup {<<"base", 0>>}
          /\ i' = 0
          /\ pc' = IF 0 < req.ranks THEN "pe_rank_status" ELSE "pe_status65"
          /\ UNCHANGED error
     ELSE /\ Throw("render")
          /\ UNCHANGED <<disk, i>>
  /\ UNCHANGED <<req, response, statusFile, statusLog, webhookLog, tempFiles,
                 dl, up, processed, overlays, rankPaths, plan, ffmpegLog>>
  /\ UNCHANGED <<fitVars, auxVars>>

\* Top of the rank overlay loop.
PE_RankStatus(sinkOk) ==
  /\ pc = "pe_rank_status"
  /\ updateStatusFile("PROCESSING", rankProgress(i, req.ranks), "none", sinkOk)
  /\ tempFiles' = Append(tempFiles, <<"rank", i>>)
  /\ pc' = "pe_rank_render"
  /\ UNCHANGED <<req, i, error, response, webhookLog, disk, emojiCache, dl, up,
                 processed, overlays, rankPaths, plan, ffmpegLog>>
  /\ UNCHANGED <<fitVars, auxVars>>

\* createRankOverlayImage for the rank of this slot and the write of its PNG.
PE_RankRender(fetched, renderOk) ==
  /\ pc = "pe_rank_render"
  /\ emojiCache' = emojiCache \cup fetched
  /\ IF renderOk
     THEN /\ disk' = disk \cup {<<"rank", i>>}
          /\ rankPaths' = Append(rankPaths,
                                 [path |-> <<"rank", i>>,
                                  rankIndex |-> rankIndexOf(req.ranks, i),
                                  timestampSlot |-> i])
          /\ i' = i + 1
          /\ pc' = IF i + 1 < req.ranks THEN "pe_rank_status" ELSE "pe_status65"
          /\ UNCHANGED error
     ELSE /\ Throw("render")
          /\ UNCHANGED <<disk, rankPaths, i>>
  /\ UNCHANGED <<req, response, statusFile, statusLog, webhookLog, tempFiles,
                 dl, up, processed, overlays, plan, ffmpegLog>>
  /\ UNCHANGED <<fitVars, auxVars>>

\* The progress write before the single transcoder pass; the inputs and the
\* filter chain are built and the transcoder spawned.
PE_Status65(sinkOk) ==
  /\ pc = "pe_status65"
  /\ updateStatusFile("PROCESSING", 65, "none", sinkOk)
  /\ tempFiles' = Append(tempFiles, <<"final", 0>>)
  /\ LET sortedTimestamps == sortByTime(req.timestamps.marks) IN
     plan' = [built |-> TRUE, mode |-> "pre-edited",
              sortedTimestamps |-> sortedTimestamps,
              baseWindow |-> <<0, titleEndOf(req.endTime)>>,
              inputArgs |-> inputArgsOf(rankPaths),
              chain |-> filterChain(rankPaths, sortedTimestamps, req.endTime),
              filterParts |->
                filterParts(filterChain(rankPaths, sortedTimestamps, req.endTime)),
              mapped |-> IF rankPaths = <<>> THEN <<"v_base">>
                         ELSE <<"v", Len(rankPaths) - 1>>]
  /\ pc' = "pe_ffmpeg"
  /\ UNCHANGED <<req, i, error, response, webhookLog, disk, emojiCache, dl, up,
                 processed, overlays, rankPaths, ffmpegLog>>
  /\ UNCHANGED <<fitVars, auxVars>>

\* The compositing pass closes.
PE_Composite(code, wrote, stderr) ==
  /\ pc = "pe_ffmpeg"
  /\ code = 0 => wrote
  /\ ffmpegLog' = Append(ffmpegLog, closeEntry("composite", -1, code, stderr,
                                              sliceFromEnd(stderr, CompositeTail)))
  /\ disk' = IF wrote THEN disk \cup {<<"final", 0>>} ELSE disk
  /\ IF code = 0 THEN pc' = "status90" /\ UNCHANGED error ELSE Throw("composite")
  /\ UNCHANGED <<req, i, response, statusFile, statusLog, webhookLog, tempFiles,
                 emojiCache, dl, up, processed, overlays, rankPaths, plan>>
  /\ UNCHANGED <<fitVars, auxVars>>

(***************************************************************************)
(* Thumbnail, upload, terminal status and cleanup (both pipelines)         *)
(***************************************************************************)
\* As onProcError, without the listener for the 'error' event of the child
\* process: the promise of the step is never settled.
onProcError_NoListener ==
  /\ pc' = "pending"
  /\ UNCHANGED error

\* proc.on('error', reject): the step is rejected with the error of the
\* spawn.
onProcError == Throw("spawn")

\* The transcoder process of the step under way cannot be spawned: the child
\* process emits 'error' and no output is written.
ProcError ==
  /\ pc \in {"as_overlay", "as_stitch", "pe_ffmpeg", "thumbnail"}
  /\ onProcError
  /\ UNCHANGED <<req, i, response, statusFile, statusLog, webhookLog, tempFiles,
                 disk, emojiCache, dl, up, processed, overlays, rankPaths, plan,
                 ffmpegLog>>
  /\ UNCHANGED <<fitVars, auxVars>>

Status90(sinkOk) ==
  /\ pc = "status90"
  /\ updateStatusFile("PROCESSING", 90, "none", sinkOk)
  /\ tempFiles' = Append(tempFiles, <<"thumb", 0>>)
  /\ pc' = "thumbnail"
  /\ UNCHANGED <<req, i, error, response, webhookLog, disk, emojiCache, dl, up,
                 processed, overlays, rankPaths, plan, ffmpegLog>>
  /\ UNCHANGED <<fitVars, auxVars>>

\* As Thumbnail, with the uploads started whatever the exit code.
Thumbnail_UploadAnyway(code, wrote, stderr) ==
  /\ pc = "thumbnail"
  /\ code = 0 => wrote
  /\ ffmpegLog' = Append(ffmpegLog, closeEntry("thumbnail", -1, code, stderr, stderr))
  /\ disk' = IF wrote THEN disk \cup {<<"thumb", 0>>} ELSE disk
  /\ up' = [u \in Uploads |-> "flight"]
  /\ pc' = "upload"
  /\ UNCHANGED <<req, i, error, response, statusFile, statusLog, webhookLog,
                 tempFiles, emojiCache, dl, processed, overlays, rankPaths, plan>>
  /\ UNCHANGED <<fitVars, auxVars>>

\* generateThumbnail closes; on success both uploads are started.
Thumbnail(code, wrote, stderr) ==
  /\ pc = "thumbnail"
  /\ code = 0 => wrote
  /\ ffmpegLog' = Append(ffmpegLog, closeEntry("thumbnail", -1, code, stderr, stderr))
  /\ disk' = IF wrote THEN disk \cup {<<"thumb", 0>>} ELSE disk
  /\ IF code = 0
     THEN /\ up' = [u \in Uploads |-> "flight"]
          /\ pc' = "upload"
          /\ UNCHANGED error
     ELSE /\ Throw("thumbnail")
          /\ UNCHANGED up
  /\ UNCHANGED <<req, i, response, statusFile, statusLog, webhookLog, tempFiles,
                 emojiCache, dl, processed, overlays, rankPaths, plan>>
  /\ UNCHANGED <<fitVars, auxVars>>

\* One upload completes; Promise.all resolves with the second one.
UploadDone(u) ==
  /\ up[u] = "flight"
  /\ up' = [up EXCEPT ![u] = "ok"]
  /\ pc' = IF pc = "upload" /\ \A v \in Uploads : up'[v] = "ok"
           THEN "ready_status" ELSE pc
  /\ UNCHANGED <<req, i, error, response, statusFile, statusLog, webhookLog,
                 tempFiles, disk, emojiCache, dl, processed, overlays, rankPaths,
                 plan, ffmpegLog>>
  /\ UNCHANGED <<fitVars, auxVars>>

\* As UploadFail, with the uploads joined by a settle-all that never rejects.
UploadFail_Settled(u) ==
  /\ up[u] = "flight"
  /\ up' = [up EXCEPT ![u] = "fail"]
  /\ pc' = IF pc = "upload" /\ \A v \in Uploads : up'[v] # "flight"
           THEN "ready_status" ELSE pc
  /\ UNCHANGED <<req, i, error, response, statusFile, statusLog, webhookLog,
                 tempFiles, disk, emojiCache, dl, processed, overlays, rankPaths,
                 plan, ffmpegLog>>
  /\ UNCHANGED <<fitVars, auxVars>>

\* One upload fails; Promise.all rejects on the first failure.
UploadFail(u) ==
  /\ up[u] = "flight"
  /\ up' = [up EXCEPT ![u] = "fail"]
  /\ IF pc = "upload" THEN Throw("upload") ELSE UNCHANGED <<pc, error>>
  /\ UNCHANGED <<req, i, response, statusFile, statusLog, webhookLog, tempFiles,
                 disk, emojiCache, dl, processed, overlays, rankPaths, plan,
                 ffmpegLog>>
  /\ UNCHANGED <<fitVars, auxVars>>

\* As ReadyStatus, with a status write that lets its error escape.
ReadyStatus_SinkThrows(sinkOk) ==
  /\ pc = "ready_status"
  /\ updateStatusFile("READY", 100, "none", sinkOk)
  /\ IF sinkOk THEN pc' = "ready_notify" /\ UNCHANGED error ELSE Throw("status")
  /\ UNCHANGED <<req, i, response, webhookLog, tempFiles, disk,
                 emojiCache, dl, up, processed, overlays, rankPaths, plan, ffmpegLog>>
  /\ UNCHANGED <<fitVars, auxVars>>

ReadyStatus(sinkOk) ==
  /\ pc = "ready_status"
  /\ updateStatusFile("READY", 100, "none", sinkOk)
  /\ pc' = "ready_notify"
  /\ UNCHANGED <<req, i, error, response, webhookLog, tempFiles, disk,
                 emojiCache, dl, up, processed, overlays, rankPaths, plan, ffmpegLog>>
  /\ UNCHANGED <<fitVars, auxVars>>

\* The webhook call, the 200 response, then the finally block.
ReadyNotify ==
  /\ pc = "ready_notify"
  /\ notifyWebsite("READY", "none")
  /\ response' = 200
  /\ Finally
  /\ pc' = "done"
  /\ UNCHANGED <<req, i, error, statusFile, statusLog, tempFiles, dl, up,
                 processed, overlays, rankPaths, plan, ffmpegLog>>
  /\ UNCHANGED <<fitVars, auxVars>>

\* The catch block: the FAILED write carries error.message.
FailStatus(sinkOk) ==
  /\ pc = "fail_status"
  /\ updateStatusFile("FAILED", -1, error, sinkOk)
  /\ pc' = "fail_notify"
  /\ UNCHANGED <<req, i, error, response, webhookLog, tempFiles, disk,
                 emojiCache, dl, up, processed, overlays, rankPaths, plan, ffmpegLog>>
  /\ UNCHANGED <<fitVars, auxVars>>

\* The webhook call, the 500 response, then the finally block.
FailNotify ==
  /\ pc = "fail_notify"
  /\ notifyWebsite("FAILED", error)
  /\ response' = 500
  /\ Finally
  /\ pc' = "done"
  /\ UNCHANGED <<req, i, error, statusFile, statusLog, tempFiles, dl, up,
                 processed, overlays, rankPaths, plan, ffmpegLog>>
  /\ UNCHANGED <<fitVars, auxVars>>

ExitCodes == {0, 1}

Next ==
  \/ \E r \in Requests : Request(r)
  \/ \E sinkOk \in BOOLEAN : AS_Status5(sinkOk)
  \/ \E k \in 1..MaxClips : AS_DownloadDone(k)
  \/ \E k \in 1..MaxClips : AS_DownloadFail(k)
  \/ \E sinkOk \in BOOLEAN : AS_ClipStatus(sinkOk)
  \/ \E fetched \in SUBSET EmojiUrls, renderOk \in BOOLEAN : AS_Render(fetched, renderOk)
  \/ \E code \in ExitCodes, wrote \in BOOLEAN, stderr \in StderrLens :
       AS_Overlay(code, wrote, stderr)
  \/ \E sinkOk \in BOOLEAN : AS_Status80(sinkOk)
  \/ \E code \in ExitCodes, wrote \in BOOLEAN, stderr \in StderrLens :
       AS_Stitch(code, wrote, stderr)
  \/ \E sinkOk \in BOOLEAN : PE_Status5(sinkOk)
  \/ \E sinkOk \in BOOLEAN : PE_Status10(sinkOk)
  \/ PE_DownloadDone
  \/ PE_DownloadFail
  \/ \E sinkOk \in BOOLEAN : PE_Status20(sinkOk)
  \/ \E fetched \in SUBSET EmojiUrls, renderOk \in BOOLEAN : PE_Base(fetched, renderOk)
  \/ \E sinkOk \in BOOLEAN : PE_RankStatus(sinkOk)
  \/ \E fetched \in SUBSET EmojiUrls, renderOk \in BOOLEAN : PE_RankRender(fetched, renderOk)
  \/ \E sinkOk \in BOOLEAN : PE_Status65(sinkOk)
  \/ \E code \in ExitCodes, wrote \in BOOLEAN, stderr \in StderrLens :
       PE_Composite(code, wrote, stderr)
  \/ \E sinkOk \in BOOLEAN : Status90(sinkOk)
  \/ \E code \in ExitCodes, wrote \in BOOLEAN, stderr \in StderrLens :
       Thumbnail(code, wrote, stderr)
  \/ ProcError
  \/ \E u \in Uploads : UploadDone(u)
  \/ \E u \in Uploads : UploadFail(u)
  \/ \E sinkOk \in BOOLEAN : ReadyStatus(sinkOk)
  \/ ReadyNotify
  \/ \E sinkOk \in BOOLEAN : FailStatus(sinkOk)
  \/ FailNotify

Init == JobInit /\ FitIdle /\ AuxIdle

Spec == Init /\ [][Next]_vars

\* The requests of the termination check: every request with the one end
\* time of a pre-edited source that is past all marks.
LiveRequests ==
  {r \in Requests : r.videoMode = "pre-edited" => r.endTime = 30}

\* The steps of the job as in Next, with no diagnostic text from the
\* transcoder and no emoji in the texts.
LiveNext ==
  \/ \E r \in LiveRequests : Request(r)
  \/ \E sinkOk \in BOOLEAN : AS_Status5(sinkOk)
  \/ \E k \in 1..MaxClips : AS_DownloadDone(k)
  \/ \E k \in 1..MaxClips : AS_DownloadFail(k)
  \/ \E sinkOk \in BOOLEAN : AS_ClipStatus(sinkOk)
  \/ \E fetched \in {{}}, renderOk \in BOOLEAN : AS_Render(fetched, renderOk)
  \/ \E code \in ExitCodes, wrote \in BOOLEAN, stderr \in {0} :
       AS_Overlay(code, wrote, stderr)
  \/ \E sinkOk \in BOOLEAN : AS_Status80(sinkOk)
  \/ \E code \in ExitCodes, wrote \in BOOLEAN, stderr \in {0} :
       AS_Stitch(code, wrote, stderr)
  \/ \E sinkOk \in BOOLEAN : PE_Status5(sinkOk)
  \/ \E sinkOk \in BOOLEAN : PE_Status10(sinkOk)
  \/ PE_DownloadDone
  \/ PE_DownloadFail
  \/ \E sinkOk \in BOOLEAN : PE_Status20(sinkOk)
  \/ \E fetched \in {{}}, renderOk \in BOOLEAN : PE_Base(fetched, renderOk)
  \/ \E sinkOk \in BOOLEAN : PE_RankStatus(sinkOk)
  \/ \E fetched \in {{}}, renderOk \in BOOLEAN : PE_RankRender(fetched, renderOk)
  \/ \E sinkOk \in BOOLEAN : PE_Status65(sinkOk)
  \/ \E code \in ExitCodes, wrote \in BOOLEAN, stderr \in {0} :
       PE_Composite(code, wrote, stderr)
  \/ \E sinkOk \in BOOLEAN : Status90(sinkOk)
  \/ \E code \in ExitCodes, wrote \in BOOLEAN, stderr \in {0} :
       Thumbnail(code, wrote, stderr)
  \/ ProcError
  \/ \E u \in Uploads : UploadDone(u)
  \/ \E u \in Uploads : UploadFail(u)
  \/ \E sinkOk \in BOOLEAN : ReadyStatus(sinkOk)
  \/ ReadyNotify
  \/ \E sinkOk \in BOOLEAN : FailStatus(sinkOk)
  \/ FailNotify

\* The job with every pending external operation (download, transcoder
\* process, upload, status write, webhook call) eventually completing or
\* failing and every continuation eventually run by the event loop.
SpecLive == Init /\ [][LiveNext]_vars /\ WF_vars(LiveNext)

(***************************************************************************)
(* SpecFit: fitTextToBox applied to every input within the bounds          *)
(***************************************************************************)
FitInit ==
  /\ JobInit
  /\ fitArgs \in [text : Texts, boxWidth : 1..MaxBoxWidth,
                  maxLines : 1..MaxLinesBound,
                  initialFontSize : 1..MaxInitialFontSize, impl : {"none"}]
  /\ fitRes = NoResult
  /\ AuxIdle

\* A call of fitTextToBox of part_002.
FitCall ==
  /\ fitRes = NoResult
  /\ fitRes' = fitTextToBox(fitArgs.text, fitArgs.boxWidth, fitArgs.maxLines,
                            fitArgs.initialFontSize)
  /\ fitArgs' = [fitArgs EXCEPT !.impl = "part_002"]
  /\ UNCHANGED <<jobVars, auxVars>>

\* A call of fitTextToBox of index.js.
FitCallIndex ==
  /\ fitRes = NoResult
  /\ fitRes' = fitTextToBoxIndex(fitArgs.text, fitArgs.boxWidth, fitArgs.maxLines,
                                 fitArgs.initialFontSize)
  /\ fitArgs' = [fitArgs EXCEPT !.impl = "index.js"]
  /\ UNCHANGED <<jobVars, auxVars>>

FitNext == FitCall \/ FitCallIndex

SpecFit == FitInit /\ [][FitNext]_vars

(***************************************************************************)
(* SpecDraw: segmentTextByFont and drawMixedText applied to every text     *)
(* within the bounds.  Positions are in tenths of a pixel, font sizes in   *)
(* pixels.                                                                 *)
(***************************************************************************)
DrawFontSizes == {3, 10}
DrawStarts == {0, 1250}

Tenths(px) == 10 * px

\* getEmojiUrl: the address of the bitmap of an emoji, made of its code
\* points; the one emoji of the text alphabet has the one address of
\* EmojiUrls, the second emoji "f" of the cache check has its own.
getEmojiUrl(emoji) == IF emoji = "f" THEN "u2" ELSE "u1"

\* A fresh canvas with the cursor at x; cache is the emojiCache the drawing
\* finds.
Canvas(x, cache) ==
  [x |-> x, pos |-> 1, cache |-> cache, ops |-> <<>>, attempts |-> 0,
   warned |-> <<>>]

\* As emojiLoop, with `currentX += fontSize' inside the try block: a glyph
\* that fails to load leaves the cursor where it is.
RECURSIVE emojiLoop_AdvanceInTry(_, _, _, _, _, _)
emojiLoop_AdvanceInTry(emojis, k, y, fontSize, fails, d) ==
  IF k > Len(emojis) THEN d
  ELSE LET url == getEmojiUrl(emojis[k])
           cached == url \in d.cache
           loaded == cached \/ (d.attempts + 1) \notin fails
           img == [kind |-> "image", font |-> "Emoji", text |-> <<emojis[k]>>,
                   x |-> d.x, y |-> y + fontSize, size |-> fontSize,
                   stroke |-> FALSE, pos |-> d.pos, n |-> 0]
       IN emojiLoop_AdvanceInTry(emojis, k + 1, y, fontSize, fails,
            [d EXCEPT !.attempts = IF cached THEN @ ELSE @ + 1,
                      !.cache = IF loaded THEN @ \cup {url} ELSE @,
                      !.ops = IF loaded THEN Append(@, img) ELSE @,
                      !.warned = IF loaded THEN @ ELSE Append(@, d.pos),
                      !.x = IF loaded THEN @ + Tenths(fontSize) ELSE @,
                      !.pos = @ + 1])

\* As emojiLoop, with drawImage inside `if (!img)': a bitmap found in the
\* cache is not drawn.
RECURSIVE emojiLoop_CachedNotDrawn(_, _, _, _, _, _)
emojiLoop_CachedNotDrawn(emojis, k, y, fontSize, fails, d) ==
  IF k > Len(emojis) THEN d
  ELSE LET url == getEmojiUrl(emojis[k])
           cached == url \in d.cache
           loaded == ~cached /\ (d.attempts + 1) \notin fails
           img == [kind |-> "image", font |-> "Emoji", text |-> <<emojis[k]>>,
                   x |-> d.x, y |-> y + fontSize, size |-> fontSize,
                   stroke |-> FALSE, pos |-> d.pos, n |-> 0]
       IN emojiLoop_CachedNotDrawn(emojis, k + 1, y, fontSize, fails,
            [d EXCEPT !.attempts = IF cached THEN @ ELSE @ + 1,
                      !.cache = IF loaded THEN @ \cup {url} ELSE @,
                      !.ops = IF loaded THEN Append(@, img) ELSE @,
                      !.warned = IF loaded \/ cached THEN @ ELSE Append(@, d.pos),
                      !.x = @ + Tenths(fontSize),
                      !.pos = @ + 1])

\* The emoji loop of drawMixedText: the bitmap comes from the cache or from
\* loadImage (attempt number d.attempts + 1 fails when it is in `fails');
\* a failure is caught and logged, and the cursor advances by fontSize
\* either way.  The image is drawn at y + fontSize * 0.1.
RECURSIVE emojiLoop(_, _, _, _, _, _)
emojiLoop(emojis, k, y, fontSize, fails, d) ==
  IF k > Len(emojis) THEN d
  ELSE LET url == getEmojiUrl(emojis[k])
           cached == url \in d.cache
           loaded == cached \/ (d.attempts + 1) \notin fails
           img == [kind |-> "image", font |-> "Emoji", text |-> <<emojis[k]>>,
                   x |-> d.x, y |-> y + fontSize, size |-> fontSize,
                   stroke |-> FALSE, pos |-> d.pos, n |-> 0]
       IN emojiLoop(emojis, k + 1, y, fontSize, fails,
            [d EXCEPT !.attempts = IF cached THEN @ ELSE @ + 1,
                      !.cache = IF loaded THEN @ \cup {url} ELSE @,
                      !.ops = IF loaded THEN Append(@, img) ELSE @,
                      !.warned = IF loaded THEN @ ELSE Append(@, d.pos),
                      !.x = @ + Tenths(fontSize),
                      !.pos = @ + 1])

\* The segment loop of drawMixedText: an emoji segment goes glyph by glyph
\* through emojiLoop, any other segment is stroked (when a stroke style is
\* given) and filled at the cursor, which then advances by its width.
RECURSIVE drawLoop(_, _, _, _, _, _, _)
drawLoop(segs, k, y, fontSize, stroke, fails, d) ==
  IF k > Len(segs) THEN d
  ELSE IF segs[k].font = "Emoji"
  THEN drawLoop(segs, k + 1, y, fontSize, stroke, fails,
                emojiLoop(segs[k].text, 1, y, fontSize, fails, d))
  ELSE LET run == [kind |-> "text", font |-> segs[k].font, text |-> segs[k].text,
                   x |-> d.x, y |-> y, size |-> fontSize, stroke |-> stroke,
                   pos |-> d.pos, n |-> 0]
       IN drawLoop(segs, k + 1, y, fontSize, stroke, fails,
            [d EXCEPT !.ops = Append(@, run),
                      !.x = @ + Tenths(measureText(segs[k].font, fontSize, segs[k].text)),
                      !.pos = @ + Len(segs[k].text)])

\* drawMixedText on the canvas d (its draw calls so far, the cache and the
\* count of load attempts carry over).
drawMixedText(d, text, x, y, fontSize, stroke, fails) ==
  drawLoop(segmentTextByFont(text), 1, y, fontSize, stroke, fails,
           [d EXCEPT !.x = x, !.pos = 1])

DrawInit ==
  /\ JobInit /\ FitIdle /\ RenIdle /\ ParIdle /\ SesIdle /\ CchIdle
  /\ drawArgs \in [text : Texts, x : DrawStarts, y : {0}, fontSize : DrawFontSizes]
  /\ drawRes = NoResult

\* A call of segmentTextByFont.
SegmentCall ==
  /\ drawRes = NoResult
  /\ drawRes' = [op |-> "segment", segments |-> segmentTextByFont(drawArgs.text)]
  /\ UNCHANGED <<drawArgs, fitVars, jobVars, renVars, par, ses, cch>>

\* A call of drawMixedText on a fresh canvas, the first of the job or a
\* later one that finds what the earlier ones cached.
DrawCall(fails) ==
  /\ IF drawRes = NoResult THEN TRUE
     ELSE drawRes.op = "draw" /\ drawRes.calls < 2
  /\ LET d == drawMixedText(Canvas(drawArgs.x, emojiCache), drawArgs.text,
                            drawArgs.x, drawArgs.y, drawArgs.fontSize, TRUE, fails)
     IN /\ drawRes' = [op |-> "draw", ops |-> d.ops, warned |-> d.warned,
                       endX |-> d.x, before |-> emojiCache,
                       calls |-> IF drawRes = NoResult THEN 1 ELSE drawRes.calls + 1]
        /\ emojiCache' = d.cache
  /\ UNCHANGED <<drawArgs, fitVars, jobRest, renVars, par, ses, cch>>

DrawNext ==
  \/ SegmentCall
  \/ \E fails \in SUBSET (1..MaxTextLen) : DrawCall(fails)

SpecDraw == DrawInit /\ [][DrawNext]_vars

(***************************************************************************)
(* SpecRender: the overlay images of one title and rank list, drawn as the *)
(* lists of their canvas calls: createTextOverlayImage (auto-stitch), run  *)
(* twice, and createBaseOverlayImage and createRankOverlayImage            *)
(* (pre-edited).                                                           *)
(***************************************************************************)
canvasWidth == 1080
canvasHeight == 1920
titleFontSize == 100
titleLineSpacing == 30
titleBoxWidth == 980
titleMaxLines == 2
titleBoxTopPadding == 30
titleBoxBottomPadding == 40
rankFontSize == 60
rankSpacing == 140
rankPaddingY == 80
rankNumX == 45
rankTextX == 125
rankBoxWidth == 830
rankMaxLines == 1
watermarkFontSize == 48
watermarkPadding == 20

RECURSIVE Rep(_, _)
Rep(ch, n) == IF n = 0 THEN <<>> ELSE <<ch>> \o Rep(ch, n - 1)

\* 'ranktop.net': eleven glyphs of the default font.
watermarkText == Rep("a", 11)

Word6 == Rep("a", 6)

\* Titles of no, one and two lines at the full size, one that only fits
\* two lines at a smaller size, and titles with emoji.
Titles ==
  { <<>>,
    Word6,
    Word6 \o <<" ">> \o Word6,
    Word6 \o <<" ">> \o Word6 \o <<" ">> \o Word6,
    <<"e", " ">> \o Word6,
    Word6 \o <<" ", "e", " ", "e", " ">> \o Word6 }

\* A rank text with an emoji and one that is too wide at the full size.
RankTexts == { <<"e", "a">>, Rep("a", 14) }

RankLists == UNION {SeqsOfLen(RankTexts, n) : n \in 1..MaxRanks}

\* The remote source of the emoji bitmaps: it answers every load, none, or
\* some of them.
Remotes == {"up", "down", "flaky"}

LoadAttempts == 1..8

\* The load attempts of one image that fail, given the remote source: none,
\* all, or the first few (after the first load that succeeds the bitmap is
\* in the cache).
FailSets(remote) ==
  IF remote = "up" THEN {{}}
  ELSE IF remote = "down" THEN {LoadAttempts}
  ELSE {1..n : n \in 0..3}

\* As computeTitleBoxH, without the bottom padding.
computeTitleBoxH_NoBottomPadding(title) ==
  LET titleRes == fitTextToBox(title, titleBoxWidth, titleMaxLines, titleFontSize)
      textH == (Len(titleRes.lines) * titleRes.fontSize)
               + ((Len(titleRes.lines) - 1) * titleLineSpacing)
  IN [titleRes |-> titleRes, boxH |-> titleBoxTopPadding + textH]

computeTitleBoxH(title) ==
  LET titleRes == fitTextToBox(title, titleBoxWidth, titleMaxLines, titleFontSize)
      textH == (Len(titleRes.lines) * titleRes.fontSize)
               + ((Len(titleRes.lines) - 1) * titleLineSpacing)
  IN [titleRes |-> titleRes,
      boxH |-> titleBoxTopPadding + textH + titleBoxBottomPadding]

\* A canvas call that is no part of drawMixedText.
CanvasOp(d, kind, x, y, size, stroke, n) ==
  [d EXCEPT !.ops = Append(@, [kind |-> kind, font |-> "CustomFont", text |-> <<>>,
                               x |-> x, y |-> y, size |-> size,
                               stroke |-> stroke, pos |-> 0, n |-> n])]

\* ctx.fillRect(0, 0, 1080, boxH)
fillTitleBox(d, boxH) == CanvasOp(d, "rect", 0, 0, 0, FALSE, boxH)

\* The title lines, each centred: x = (1080 - lw) / 2.
RECURSIVE drawTitleLines(_, _, _, _, _, _)
drawTitleLines(d, lines, k, currY, fontSize, fails) ==
  IF k > Len(lines) THEN d
  ELSE LET lw == measureMixedText(lines[k], fontSize) IN
       drawTitleLines(
         drawMixedText(d, lines[k], 5 * (canvasWidth - lw), currY, fontSize, FALSE, fails),
         lines, k + 1, currY + Tenths(fontSize + titleLineSpacing), fontSize, fails)

\* lines[0] of a fit result; drawMixedText draws nothing for a missing text.
FirstLine(res) == IF res.lines = <<>> THEN <<>> ELSE res.lines[1]

\* One rank row at y: the number `${idx + 1}.', then the rank text, centred
\* on the row when it was fitted at a smaller size.
drawRankRow(d, ranks, idx, y, fails) ==
  LET rRes == fitTextToBox(ranks[idx + 1], rankBoxWidth, rankMaxLines, rankFontSize)
  IN drawMixedText(
       CanvasOp(d, "num", Tenths(rankNumX), Tenths(y), rankFontSize, TRUE, idx + 1),
       FirstLine(rRes), Tenths(rankTextX), Tenths(y) + 5 * (rankFontSize - rRes.fontSize),
       rRes.fontSize, TRUE, fails)

drawWatermark(d, fails) ==
  LET wmW == measureMixedText(watermarkText, watermarkFontSize) IN
  drawMixedText(d, watermarkText, Tenths(canvasWidth - wmW - watermarkPadding),
                Tenths(canvasHeight - watermarkFontSize - watermarkPadding),
                watermarkFontSize, TRUE, fails)

\* The rank rows of createTextOverlayImage, i = k .. ranksToShow - 1.
RECURSIVE drawShownRanks(_, _, _, _, _, _)
drawShownRanks(d, ranks, ranksToShow, k, boxH, fails) ==
  IF k >= ranksToShow THEN d
  ELSE LET idx == shownIdx(Len(ranks), ranksToShow, k)
           y == rankPaddingY + boxH + (idx * rankSpacing)
       IN drawShownRanks(drawRankRow(d, ranks, idx, y, fails),
                         ranks, ranksToShow, k + 1, boxH, fails)

\* createTextOverlayImage on the canvas d: title box, title lines, the
\* revealed rank rows, watermark.
createTextOverlayImageOn(d, title, ranks, ranksToShow, fails) ==
  LET titleRes == fitTextToBox(title, titleBoxWidth, titleMaxLines, titleFontSize)
      textH == (Len(titleRes.lines) * titleRes.fontSize)
               + ((Len(titleRes.lines) - 1) * titleLineSpacing)
      boxH == titleBoxTopPadding + textH + titleBoxBottomPadding
      titled == drawTitleLines(fillTitleBox(d, boxH), titleRes.lines, 1,
                               5 * (boxH - textH), titleRes.fontSize, fails)
  IN drawWatermark(drawShownRanks(titled, ranks, ranksToShow, 0, boxH, fails), fails)

\* createBaseOverlayImage on the canvas d: title box, title lines, watermark.
createBaseOverlayImageOn(d, title, fails) ==
  LET titleRes == computeTitleBoxH(title).titleRes
      boxH == computeTitleBoxH(title).boxH
      textH == (Len(titleRes.lines) * titleRes.fontSize)
               + ((Len(titleRes.lines) - 1) * titleLineSpacing)
  IN drawWatermark(drawTitleLines(fillTitleBox(d, boxH), titleRes.lines, 1,
                                  5 * (boxH - textH), titleRes.fontSize, fails),
                   fails)

\* createRankOverlayImage on the canvas d: the one row of rankIndex, placed
\* below the title box of the given height.
createRankOverlayImageOn(d, ranks, rankIndex, boxH, fails) ==
  drawRankRow(d, ranks, rankIndex,
              rankPaddingY + boxH + (rankIndex * rankSpacing), fails)

NoBoxH == -1

RenInit ==
  /\ JobInit /\ FitIdle /\ DrawIdle /\ ParIdle /\ SesIdle /\ CchIdle
  /\ renArgs \in {[title |-> t, ranks |-> r, ranksToShow |-> n, remote |-> m] :
                    t \in Titles, r \in RankLists, n \in 1..MaxRanks, m \in Remotes}
  /\ renArgs.ranksToShow <= Len(renArgs.ranks)
  /\ renOut = [runs |-> <<>>, boxH |-> NoBoxH, timed |-> <<>>]

\* createTextOverlayImage of the input, a first time and once again.
RenderOverlay(fails) ==
  /\ Len(renOut.runs) < 2
  /\ renOut.timed = <<>>
  /\ LET d == createTextOverlayImageOn(Canvas(0, emojiCache), renArgs.title,
                                       renArgs.ranks, renArgs.ranksToShow, fails)
     IN /\ renOut' = [renOut EXCEPT !.runs = Append(@, d.ops)]
        /\ emojiCache' = d.cache
  /\ UNCHANGED <<renArgs, fitVars, jobRest, drawVars, par, ses, cch>>

\* The job that drew the first image ends (emojiCache.clear() in finally).
RenderClear ==
  /\ Len(renOut.runs) = 1
  /\ renOut.timed = <<>>
  /\ emojiCache # {}
  /\ emojiCache' = {}
  /\ UNCHANGED <<renVars, fitVars, jobRest, drawVars, par, ses, cch>>

\* processPreEdited: boxH is calculated once, then the base overlay drawn.
RenderBase(fails) ==
  /\ Len(renOut.runs) = 1
  /\ renOut.timed = <<>>
  /\ LET d == createBaseOverlayImageOn(Canvas(0, emojiCache), renArgs.title, fails)
     IN /\ renOut' = [renOut EXCEPT !.boxH = computeTitleBoxH(renArgs.title).boxH,
                                    !.timed = <<d.ops>>]
        /\ emojiCache' = d.cache
  /\ UNCHANGED <<renArgs, fitVars, jobRest, drawVars, par, ses, cch>>

\* processPreEdited: the rank overlay of loop index i, rank L - 1 - i.
RenderRank(fails) ==
  /\ renOut.timed # <<>>
  /\ Len(renOut.timed) - 1 < Len(renArgs.ranks)
  /\ LET rankIndex == rankIndexOf(Len(renArgs.ranks), Len(renOut.timed) - 1)
         d == createRankOverlayImageOn(Canvas(0, emojiCache), renArgs.ranks,
                                       rankIndex, renOut.boxH, fails)
     IN /\ renOut' = [renOut EXCEPT !.timed = Append(@, d.ops)]
        /\ emojiCache' = d.cache
  /\ UNCHANGED <<renArgs, fitVars, jobRest, drawVars, par, ses, cch>>

RenNext ==
  \/ \E fails \in FailSets(renArgs.remote) : RenderOverlay(fails)
  \/ RenderClear
  \/ \E fails \in FailSets(renArgs.remote) : RenderBase(fails)
  \/ \E fails \in FailSets(renArgs.remote) : RenderRank(fails)

SpecRender == RenInit /\ [][RenNext]_vars

(***************************************************************************)
(* SpecSessions: two requests served at the same time by one instance of   *)
(* the handler of index.js; both share /tmp.  A file is the record of its  *)
(* owner, its kind (the prefix of its name) and its clip index.            *)
(***************************************************************************)
Sessions == {"s1", "s2"}
SesClips == 1..2

\* The name prefixes that the sweep of cleanup matches.
SweptKinds == {"input", "processed", "final", "overlay"}

TmpFile(j, kind, idx) == [owner |-> j, kind |-> kind, idx |-> idx]

\* The files of session j listed in localFiles, processedVideos, finalVideo.
ListedFiles(j) ==
  {f \in ses.disk : f.owner = j /\ f.kind \in {"input", "processed", "final"}}

SesInit ==
  /\ JobInit /\ FitIdle /\ DrawIdle /\ RenIdle /\ ParIdle /\ CchIdle
  /\ ses = [SesOff EXCEPT !.on = TRUE]

\* A processVideos request with n clips arrives.
SesRequest(j, n) ==
  /\ ses.pc[j] = "idle"
  /\ ses' = [ses EXCEPT !.pc[j] = "download", !.n[j] = n, !.i[j] = 0]
  /\ UNCHANGED <<fitVars, jobVars, drawVars, renVars, par, cch>>

\* downloadVideos: clip i arrives at /tmp/input_i_<uuid>.
SesDownloadDone(j) ==
  /\ ses.pc[j] = "download"
  /\ ses' = [ses EXCEPT !.disk = @ \cup {TmpFile(j, "input", ses.i[j])},
                        !.i[j] = IF @ + 1 = ses.n[j] THEN 0 ELSE @ + 1,
                        !.pc[j] = IF ses.i[j] + 1 = ses.n[j] THEN "overlay" ELSE @]
  /\ UNCHANGED <<fitVars, jobVars, drawVars, renVars, par, cch>>

\* The download, the transcoder or the upload fails: the catch block runs.
SesFail(j) ==
  /\ ses.pc[j] \in {"download", "upload"}
  /\ ses' = [ses EXCEPT !.pc[j] = "catch"]
  /\ UNCHANGED <<fitVars, jobVars, drawVars, renVars, par, cch>>

\* processVideosWithOverlay: the overlay of clip i is written, then the
\* transcoder is started.
SesOverlayWrite(j) ==
  /\ ses.pc[j] = "overlay"
  /\ ses' = [ses EXCEPT !.disk = @ \cup {TmpFile(j, "overlay", ses.i[j])},
                        !.pc[j] = "ffmpeg"]
  /\ UNCHANGED <<fitVars, jobVars, drawVars, renVars, par, cch>>

\* addImageOverlay ends.  It wrote /tmp/processed_i_<uuid> when it ended
\* with code 0; after the last clip or a failure the finally block deletes
\* the overlays of this call.
SesOverlayDone(j, code) ==
  /\ ses.pc[j] = "ffmpeg"
  /\ LET last == code # 0 \/ ses.i[j] + 1 = ses.n[j]
         written == IF code = 0 THEN {TmpFile(j, "processed", ses.i[j])} ELSE {}
         own == {f \in ses.disk : f.owner = j /\ f.kind = "overlay"}
     IN ses' = [ses EXCEPT !.disk = IF last THEN (@ \cup written) \ own ELSE @ \cup written,
                           !.i[j] = IF last THEN 0 ELSE @ + 1,
                           !.pc[j] = IF code # 0 THEN "catch"
                                     ELSE IF last THEN "concat" ELSE "overlay"]
  /\ UNCHANGED <<fitVars, jobVars, drawVars, renVars, par, cch>>

\* concatenateVideos ends.
SesConcatDone(j, code) ==
  /\ ses.pc[j] = "concat"
  /\ ses' = [ses EXCEPT !.disk = IF code = 0 THEN @ \cup {TmpFile(j, "final", 0)} ELSE @,
                        !.pc[j] = IF code = 0 THEN "upload" ELSE "catch"]
  /\ UNCHANGED <<fitVars, jobVars, drawVars, renVars, par, cch>>

\* uploadToGCS ends well.
SesUploadDone(j) ==
  /\ ses.pc[j] = "upload"
  /\ ses' = [ses EXCEPT !.pc[j] = "cleanup"]
  /\ UNCHANGED <<fitVars, jobVars, drawVars, renVars, par, cch>>

\* cleanup(sessionId, localFiles): the listed files (none on the catch
\* path), then every file of /tmp whose name holds one of the swept
\* prefixes.  foreign records the files removed that another session made.
cleanup(j, localFiles) ==
  LET swept == {f \in ses.disk : f.kind \in SweptKinds}
      removed == localFiles \cup swept
  IN ses' = [ses EXCEPT !.disk = @ \ removed,
                        !.foreign = @ \cup {f \in removed : f.owner # j},
                        !.pc[j] = "done"]

SesCleanup(j) ==
  /\ ses.pc[j] = "cleanup"
  /\ cleanup(j, ListedFiles(j))
  /\ UNCHANGED <<fitVars, jobVars, drawVars, renVars, par, cch>>

SesCatchCleanup(j) ==
  /\ ses.pc[j] = "catch"
  /\ cleanup(j, {})
  /\ UNCHANGED <<fitVars, jobVars, drawVars, renVars, par, cch>>

SesNext ==
  \/ \E j \in Sessions, n \in SesClips : SesRequest(j, n)
  \/ \E j \in Sessions : SesDownloadDone(j)
  \/ \E j \in Sessions : SesFail(j)
  \/ \E j \in Sessions : SesOverlayWrite(j)
  \/ \E j \in Sessions, code \in ExitCodes : SesOverlayDone(j, code)
  \/ \E j \in Sessions, code \in ExitCodes : SesConcatDone(j, code)
  \/ \E j \in Sessions : SesUploadDone(j)
  \/ \E j \in Sessions : SesCleanup(j)
  \/ \E j \in Sessions : SesCatchCleanup(j)

SpecSessions == SesInit /\ [][SesNext]_vars

(***************************************************************************)
(* SpecParallel: the handler of part_001, which downloads the clips in     *)
(* parallel and overlays them in parallel (Promise.all over map) before    *)
(* it concatenates.  A segment is named by the index of its clip (1..n).   *)
(***************************************************************************)
AllOk(states) == \A k \in 1..Len(states) : states[k] = "ok"

\* As settle, with `processedVideos.push(out)' when a clip is done: the
\* result takes the first free place.
settle_PushWhenDone(results, k, value) ==
  [results EXCEPT ![CHOOSE p \in 1..Len(results) :
                      results[p] = 0 /\ \A q \in 1..(p - 1) : results[q] # 0] = value]

\* Promise.all: the value of the k-th promise takes the k-th place of the
\* result (0 marks a place not yet settled).
settle(results, k, value) == [results EXCEPT ![k] = value]

ParInit ==
  /\ JobInit /\ FitIdle /\ DrawIdle /\ RenIdle /\ SesIdle /\ CchIdle
  /\ par = [ParOff EXCEPT !.on = TRUE]

\* A request with n clips: every download starts.
ParRequest(n) ==
  /\ par.pc = "idle"
  /\ par' = [par EXCEPT !.pc = "download", !.n = n,
                        !.dl = [k \in 1..n |-> "flight"],
                        !.proc = [k \in 1..n |-> "idle"],
                        !.results = [k \in 1..n |-> 0]]
  /\ UNCHANGED <<fitVars, jobVars, drawVars, renVars, ses, cch>>

\* The download of clip k ends well; after the last one every clip's
\* overlay is written and its transcoder started.
ParDownloadDone(k) ==
  /\ par.pc \in {"download", "failed"}
  /\ k \in 1..par.n /\ par.dl[k] = "flight"
  /\ LET dl2 == [par.dl EXCEPT ![k] = "ok"]
         go == par.pc = "download" /\ AllOk(dl2)
     IN par' = [par EXCEPT !.dl = dl2,
                           !.pc = IF go THEN "process" ELSE @,
                           !.proc = IF go THEN [c \in 1..par.n |-> "flight"] ELSE @]
  /\ UNCHANGED <<fitVars, jobVars, drawVars, renVars, ses, cch>>

\* The download of clip k fails: Promise.all rejects at the first failure.
ParDownloadFail(k) ==
  /\ par.pc \in {"download", "failed"}
  /\ k \in 1..par.n /\ par.dl[k] = "flight"
  /\ par' = [par EXCEPT !.dl[k] = "fail", !.pc = "failed"]
  /\ UNCHANGED <<fitVars, jobVars, drawVars, renVars, ses, cch>>

\* The transcoder of clip k closes, in any order.  With code 0 its segment
\* settles; once every segment has settled the list file is written from
\* processedVideos and the concatenation started.
ParOverlayDone(k, code) ==
  /\ par.pc \in {"process", "failed"}
  /\ k \in 1..par.n /\ par.proc[k] = "flight"
  /\ LET proc2 == [par.proc EXCEPT ![k] = IF code = 0 THEN "ok" ELSE "fail"]
         results2 == IF code = 0 THEN settle(par.results, k, k) ELSE par.results
         go == par.pc = "process" /\ AllOk(proc2)
     IN par' = [par EXCEPT !.proc = proc2,
                           !.results = results2,
                           !.finished = Append(@, k),
                           !.pc = IF code # 0 THEN "failed"
                                  ELSE IF go THEN "concat" ELSE @,
                           !.concatList = IF go THEN results2 ELSE @]
  /\ UNCHANGED <<fitVars, jobVars, drawVars, renVars, ses, cch>>

\* The concatenation closes.
ParConcatDone(code) ==
  /\ par.pc = "concat"
  /\ par' = [par EXCEPT !.pc = IF code = 0 THEN "upload" ELSE "failed"]
  /\ UNCHANGED <<fitVars, jobVars, drawVars, renVars, ses, cch>>

\* The upload ends; the scratch files are removed and the job completes.
ParUploadDone(ok) ==
  /\ par.pc = "upload"
  /\ par' = [par EXCEPT !.pc = IF ok THEN "done" ELSE "failed"]
  /\ UNCHANGED <<fitVars, jobVars, drawVars, renVars, ses, cch>>

ParNext ==
  \/ \E n \in 1..MaxClips : ParRequest(n)
  \/ \E k \in 1..MaxClips : ParDownloadDone(k)
  \/ \E k \in 1..MaxClips : ParDownloadFail(k)
  \/ \E k \in 1..MaxClips, code \in ExitCodes : ParOverlayDone(k, code)
  \/ \E code \in ExitCodes : ParConcatDone(code)
  \/ \E ok \in BOOLEAN : ParUploadDone(ok)

SpecParallel == ParInit /\ [][ParNext]_vars

(***************************************************************************)
(* SpecCache: two jobs running in one instance draw emoji glyphs through   *)
(* the module-level emojiCache.  Each await of loadImage is a point where  *)
(* the other job runs; everything between two awaits is one step.          *)
(***************************************************************************)
MaxCacheGlyphs == 2

Jobs == {"j1", "j2"}
CacheEmojis == {"e", "f"}

\* The emoji glyphs a job draws, in order.
GlyphRuns == UNION {SeqsOfLen(CacheEmojis, n) : n \in 1..MaxCacheGlyphs}

\* As cacheSet, adding the entry beside what the cache holds for the key.
cacheSet_KeepOld(cache, url, img) == cache \cup {[url |-> url, img |-> img]}

\* emojiCache.set(url, img): the entry of the key is replaced.
cacheSet(cache, url, img) ==
  {e \in cache : e.url # url} \cup {[url |-> url, img |-> img]}

\* emojiCache.get(url): the entries found under the key (none: undefined).
cacheGet(cache, url) == {e.img : e \in {c \in cache : c.url = url}}

CacheInit ==
  /\ JobInit /\ FitIdle /\ DrawIdle /\ RenIdle /\ ParIdle /\ SesIdle
  /\ cch = [CchOff EXCEPT !.on = TRUE]

\* The loop of drawMixedText moves to the next glyph, or the job goes on to
\* its finally block after the last one.
nextGlyph(job) ==
  IF job.k + 1 > Len(job.text)
  THEN [job EXCEPT !.pc = "end", !.k = @ + 1]
  ELSE [job EXCEPT !.pc = "get", !.k = @ + 1]

\* A job starts drawing its glyphs.
CacheStart(j, text) ==
  /\ cch.on
  /\ cch.job[j].pc = "idle"
  /\ cch' = [cch EXCEPT !.job[j] = [pc |-> "get", text |-> text, k |-> 1]]
  /\ UNCHANGED <<fitVars, jobVars, drawVars, renVars, par, ses>>

\* `let img = emojiCache.get(url)': a bitmap found is drawn and the loop goes
\* on; otherwise loadImage is called and awaited.
CacheGet(j) ==
  /\ cch.job[j].pc = "get"
  /\ LET url == getEmojiUrl(cch.job[j].text[cch.job[j].k])
         found == cacheGet(cch.cache, url)
     IN IF found # {}
        THEN \E img \in found :
               cch' = [cch EXCEPT !.got = @ \cup {[url |-> url, img |-> img]},
                                  !.job[j] = nextGlyph(@)]
        ELSE cch' = [cch EXCEPT !.job[j].pc = "load"]
  /\ UNCHANGED <<fitVars, jobVars, drawVars, renVars, par, ses>>

\* loadImage resolves: the bitmap is stored under the url and drawn.
CacheLoadDone(j) ==
  /\ cch.job[j].pc = "load"
  /\ LET url == getEmojiUrl(cch.job[j].text[cch.job[j].k])
         img == [of |-> url, fetch |-> cch.fetches + 1]
     IN cch' = [cch EXCEPT !.cache = cacheSet(@, url, img),
                           !.loaded = @ \cup {img},
                           !.fetches = @ + 1,
                           !.job[j] = nextGlyph(@)]
  /\ UNCHANGED <<fitVars, jobVars, drawVars, renVars, par, ses>>

\* loadImage rejects: the catch block logs and the loop goes on.
CacheLoadFail(j) ==
  /\ cch.job[j].pc = "load"
  /\ cch' = [cch EXCEPT !.failed = @ + 1, !.job[j] = nextGlyph(@)]
  /\ UNCHANGED <<fitVars, jobVars, drawVars, renVars, par, ses>>

\* The finally block of the job: emojiCache.clear().
CacheClear(j) ==
  /\ cch.job[j].pc = "end"
  /\ cch' = [cch EXCEPT !.cache = {}, !.clears = @ + 1, !.job[j].pc = "done"]
  /\ UNCHANGED <<fitVars, jobVars, drawVars, renVars, par, ses>>

CacheNext ==
  \/ \E j \in Jobs, text \in GlyphRuns : CacheStart(j, text)
  \/ \E j \in Jobs : CacheGet(j)
  \/ \E j \in Jobs : CacheLoadDone(j)
  \/ \E j \in Jobs : CacheLoadFail(j)
  \/ \E j \in Jobs : CacheClear(j)

SpecCache == CacheInit /\ [][CacheNext]_vars

(***************************************************************************)
(* Properties                                                              *)
(***************************************************************************)
IsPreEdited == req.videoMode = "pre-edited"
IsAutoStitch == req.videoMode \notin {"none", "pre-edited"}

IsTerminal(e) == e.status \in {"READY", "FAILED"}

\* C1: in auto-stitch with N <= L, the overlay of the k-th clip (1-indexed)
\* shows exactly the rank indices L-k .. L-1, each once.
C1_CumulativeReveal ==
  \A k \in 1..Len(overlays) :
    req.filePaths.len <= req.ranks =>
      /\ Len(overlays[k]) = k
      /\ Range(overlays[k]) = (req.ranks - k)..(req.ranks - 1)

C1_Witness ==
  /\ IsAutoStitch
  /\ req.filePaths.len = 3
  /\ req.ranks = 3
  /\ Len(overlays) = 3

IsAscending(s) == \A a, b \in 1..Len(s) : a <= b => s[a] <= s[b]

Occurrences(s, t) == Cardinality({k \in 1..Len(s) : s[k] = t})

IsSortOf(s, ts) ==
  /\ IsAscending(s)
  /\ Len(s) = Len(ts)
  /\ \A t \in MarkTimes : Occurrences(s, t) = Occurrences(ts, t)

PreEditedPlanBuilt == plan.built /\ plan.mode = "pre-edited"

NoWorkDone ==
  /\ statusLog = <<>>
  /\ webhookLog = <<>>
  /\ dl = <<>>
  /\ disk = {}
  /\ tempFiles = <<>>
  /\ overlays = <<>>
  /\ rankPaths = <<>>
  /\ ffmpegLog = <<>>
  /\ \A u \in Uploads : up[u] = "idle"

HasNoMarks(r) == r.timestamps.kind # "list" \/ r.timestamps.marks = <<>>

\* C3: a pre-edited request without any mark is answered 400 and no status
\* write, download, render or transcoder run is ever made for it.
C3_NoMarksRejected ==
  (IsPreEdited /\ HasNoMarks(req)) =>
    /\ pc = "rejected"
    /\ response = 400
    /\ NoWorkDone

C3_Witness ==
  /\ IsPreEdited
  /\ req.postId
  /\ req.filePath
  /\ req.timestamps = [kind |-> "list", marks |-> <<>>]
  /\ pc = "rejected"

\* C4: a pre-edited request with end time <= 0 is answered 400 and no
\* download or render is made for it.
C4_EndTimeRejected ==
  (IsPreEdited /\ req.endTime <= 0) =>
    /\ pc = "rejected"
    /\ NoWorkDone

\* C5: once the job has ended (READY or FAILED reported, finally block run),
\* no scratch file of the job is on disk and the emoji cache is empty.
C5_CleanupInvariant ==
  pc = "done" => disk = {} /\ emojiCache = {}

TerminalReports == SelectSeq(statusLog, IsTerminal)

\* C6: a job reports at most one terminal status at any time and, once it
\* has ended, exactly one, as the last status update and with the same
\* status on the webhook.
C6_ExactlyOneTerminal ==
  /\ Len(TerminalReports) <= 1
  /\ Len(webhookLog) <= 1
  /\ Len(TerminalReports) = 1 => IsTerminal(statusLog[Len(statusLog)])
  /\ Len(webhookLog) = 1 =>
       Len(TerminalReports) = 1 /\ webhookLog[1].status = TerminalReports[1].status
  /\ pc = "done" => Len(TerminalReports) = 1 /\ Len(webhookLog) = 1

C6_Witness ==
  /\ pc = "done"
  /\ response = 500
  /\ error = "overlay"
  /\ statusFile = NoStatus

StageFailed ==
  \/ \E k \in DOMAIN dl : dl[k] = "fail"
  \/ \E e \in Range(ffmpegLog) : e.code # 0
  \/ \E u \in Uploads : up[u] = "fail"
  \/ error = "render"

\* C7: once a stage has failed, READY is never reported, and the job ends
\* with FAILED and the error reason on the status file and on the webhook.
C7_FailureReported ==
  StageFailed =>
    /\ \A e \in Range(statusLog) : e.status # "READY"
    /\ \A e \in Range(webhookLog) : e.status # "READY"
    /\ response # 200
    /\ pc \notin {"ready_status", "ready_notify"}
    /\ pc = "done" =>
         /\ error # "none"
         /\ statusLog[Len(statusLog)] =
              [status |-> "FAILED", progress |-> -1, error |-> error]
         /\ webhookLog = <<[status |-> "FAILED", error |-> error]>>
         /\ response = 500

C7_Witness ==
  /\ pc = "done"
  /\ up["video"] = "fail"
  /\ \E e \in Range(ffmpegLog) : e.kind = "composite" /\ e.code = 0
  /\ error = "upload"

Succeeded(kind, clip) ==
  \E e \in Range(ffmpegLog) : e.kind = kind /\ e.clip = clip /\ e.code = 0

PlanSucceeded ==
  /\ Succeeded("thumbnail", -1)
  /\ IF IsPreEdited
     THEN Succeeded("composite", -1)
     ELSE /\ \A k \in 0..(req.filePaths.len - 1) : Succeeded("overlay", k)
          /\ Succeeded("stitch", -1)

\* C8: an upload has started only if every transcoder run of the plan and
\* the thumbnail extraction have succeeded.
C8_NoPartialPublish ==
  (\E u \in Uploads : up[u] # "idle") => PlanSucceeded

C8_Witness ==
  /\ IsAutoStitch
  /\ req.filePaths.len = 2
  /\ up["video"] = "flight"
  /\ up["thumbnail"] = "ok"

AttemptedSizes(initialFontSize) ==
  {fs \in 1..initialFontSize : (initialFontSize - fs) % 2 = 0}

\* The number of lines the word wrap of the called fitTextToBox needs at a size.
LinesAt(a, fs) ==
  IF a.impl = "index.js"
  THEN Len(wrapLoopIndex(split(a.text), 1, <<>>, <<>>, a.boxWidth, fs))
  ELSE Len(wrap(a.text, a.boxWidth, fs))

SomeSizeFits(a) ==
  \E fs \in AttemptedSizes(a.initialFontSize) : LinesAt(a, fs) <= a.maxLines

FitCalled == fitArgs.impl # "none"

\* C9: unless no attempted size fits, fitTextToBox returns a font size of at
\* most the initial size and at most maxLines lines.
C9_FitWithinBounds ==
  (FitCalled /\ SomeSizeFits(fitArgs)) =>
    /\ DOMAIN fitRes = {"fontSize", "lines"}
    /\ fitRes.fontSize <= fitArgs.initialFontSize
    /\ fitRes.fontSize >= 1
    /\ Len(fitRes.lines) <= fitArgs.maxLines

C9_Witness ==
  /\ fitArgs.impl = "part_002"
  /\ fitArgs.text = <<"a", " ", "e", "c">>
  /\ fitArgs.boxWidth = 3
  /\ fitArgs.maxLines = 2
  /\ fitArgs.initialFontSize = 5
  /\ fitRes = [fontSize |-> 3, lines |-> << <<"a">>, <<"e", "c">> >>]

SmallestAttempted(initialFontSize) ==
  CHOOSE fs \in AttemptedSizes(initialFontSize) :
    \A other \in AttemptedSizes(initialFontSize) : fs <= other

\* C10: when no attempted size fits, fitTextToBox returns the smallest
\* attempted size and the whole text as one line.
C10_FallbackSmallestSize ==
  (FitCalled /\ ~SomeSizeFits(fitArgs)) =>
    /\ DOMAIN fitRes = {"fontSize", "lines"}
    /\ fitRes.fontSize = SmallestAttempted(fitArgs.initialFontSize)
    /\ fitRes.lines = <<fitArgs.text>>

\* The texts of the segments put together in order.
RECURSIVE concatSegments(_, _)
concatSegments(segs, k) ==
  IF k > Len(segs) THEN <<>> ELSE segs[k].text \o concatSegments(segs, k + 1)

Segmented == drawRes # NoResult /\ drawRes.op = "segment"

\* C11: the texts of the segments returned by segmentTextByFont, put
\* together in order, are the original text, and segmenting that
\* concatenation returns the same segments.
C11_SegmentRoundTrip ==
  Segmented =>
    LET joined == concatSegments(drawRes.segments, 1) IN
    /\ joined = drawArgs.text
    /\ segmentTextByFont(joined) = drawRes.segments

C11_Witness ==
  /\ Segmented
  /\ drawArgs.text = <<"a", "e", "e", "c">>
  /\ drawRes.segments = << [text |-> <<"a">>, font |-> "CustomFont"],
                           [text |-> <<"e", "e">>, font |-> "Emoji"],
                           [text |-> <<"c">>, font |-> "Noto Sans CJK SC"] >>

Drawn == drawRes # NoResult /\ drawRes.op = "draw"

\* The draw calls of the same text when every bitmap is at hand.
AllLoadedOps ==
  drawMixedText(Canvas(drawArgs.x, EmojiUrls), drawArgs.text, drawArgs.x,
                drawArgs.y, drawArgs.fontSize, TRUE, {}).ops

IsEmojiAt(pos) == getFontForChar(drawArgs.text[pos]) = "Emoji"

\* C13: a drawing in which some bitmaps failed to load runs to the end of
\* the text; its draw calls are those of the drawing with every bitmap at
\* hand, at the same positions, but for the images of the failed glyphs,
\* and the cursor ends where it ends when nothing fails.
C13_EmojiFailureSkipsGlyph ==
  Drawn =>
    LET Kept(op) == \A w \in 1..Len(drawRes.warned) : drawRes.warned[w] # op.pos IN
    /\ \A w \in 1..Len(drawRes.warned) : IsEmojiAt(drawRes.warned[w])
    /\ drawRes.ops = SelectSeq(AllLoadedOps, Kept)
    /\ drawRes.endX = drawArgs.x + Tenths(measureMixedText(drawArgs.text, drawArgs.fontSize))

\* The first glyph failed to load; the letter, the second emoji and the CJK
\* glyph after it are drawn one, two and three font sizes further.
C13_Witness ==
  /\ Drawn
  /\ drawArgs = [text |-> <<"e", "a", "e", "c">>, x |-> 0, y |-> 0, fontSize |-> 10]
  /\ drawRes.warned = <<1>>
  /\ Len(drawRes.ops) = 3
  /\ drawRes.ops[1].kind = "text" /\ drawRes.ops[1].x = 100
  /\ drawRes.ops[2].kind = "image" /\ drawRes.ops[2].x = 200
  /\ drawRes.ops[3].kind = "text" /\ drawRes.ops[3].x = 300
  /\ drawRes.endX = 500

Rendered == renOut # NoResult

\* The y of the rank number n in a list of canvas calls (-1 if not drawn).
NumY(ops, n) ==
  IF \E k \in 1..Len(ops) : ops[k].kind = "num" /\ ops[k].n = n
  THEN ops[CHOOSE k \in 1..Len(ops) : ops[k].kind = "num" /\ ops[k].n = n].y
  ELSE -1

\* The height of the title box in a list of canvas calls.
RectH(ops) == ops[CHOOSE k \in 1..Len(ops) : ops[k].kind = "rect"].n

\* C12: the title box of the base overlay has the height of the title box
\* of createTextOverlayImage for the same title, which is the height
\* computeTitleBoxH returns, and each rank overlay draws its row at the y
\* of that row in createTextOverlayImage.
C12_TitleBoxHeightsAgree ==
  (Rendered /\ renOut.timed # <<>>) =>
    LET len == Len(renArgs.ranks) IN
    /\ renOut.boxH = RectH(renOut.runs[1])
    /\ RectH(renOut.timed[1]) = RectH(renOut.runs[1])
    /\ \A j \in 2..Len(renOut.timed) :
         LET rankIndex == len - (j - 1) IN
         /\ NumY(renOut.timed[j], rankIndex + 1) >= 0
         /\ rankIndex >= len - renArgs.ranksToShow =>
              NumY(renOut.timed[j], rankIndex + 1) = NumY(renOut.runs[1], rankIndex + 1)

\* A title shrunk to 74 px on two lines (box height 248): the rows of ranks
\* 3, 2 and 1 are at 608, 468 and 328 in both renderers.
C12_Witness ==
  /\ Rendered
  /\ renArgs.title = Word6 \o <<" ">> \o Word6 \o <<" ">> \o Word6
  /\ Len(renArgs.ranks) = 3 /\ renArgs.ranksToShow = 3
  /\ Len(renOut.timed) = 4
  /\ renOut.boxH = 248
  /\ NumY(renOut.runs[1], 3) = 6080 /\ NumY(renOut.timed[2], 3) = 6080
  /\ NumY(renOut.runs[1], 1) = 3280 /\ NumY(renOut.timed[4], 1) = 3280

RanTwice == Rendered /\ Len(renOut.runs) = 2

\* C19 as stated: two runs of createTextOverlayImage on the same title,
\* ranks and reveal state issue the same canvas calls at the same positions.
C19_AsStated == RanTwice => renOut.runs[1] = renOut.runs[2]

\* C19 (amended): when the remote source of the emoji bitmaps answers the
\* same way in both runs (every load, or none), two runs of
\* createTextOverlayImage on the same title, ranks and reveal state issue
\* the same canvas calls at the same positions, whatever the emoji cache
\* holds when each run starts.
C19_SameCallsOnSteadyRemote ==
  (RanTwice /\ renArgs.remote # "flaky") => renOut.runs[1] = renOut.runs[2]

\* The second run found the bitmap the first one cached and drew it again.
C19_Witness ==
  /\ RanTwice
  /\ renArgs.remote = "up"
  /\ renArgs.title = <<"e", " ">> \o Word6
  /\ emojiCache = {"u1"}
  /\ \E k \in 1..Len(renOut.runs[2]) :
       /\ renOut.runs[2][k].kind = "image"
       /\ renOut.runs[2][k].size = titleFontSize
       /\ renOut.runs[1][k] = renOut.runs[2][k]

\* C14: the cleanup of a session never deletes a file that another session
\* created.
C14_ScratchFilesOwned == ses.foreign = {}

ConcatStarted == par.concatList # <<>>

\* C15: when the concatenation starts, the segment of every clip has been
\* produced, and the concat list names the segments in the order of the
\* clips, in whatever order the transcoders of the clips closed.
C15_ConcatBarrierInClipOrder ==
  ConcatStarted =>
    /\ AllOk(par.proc)
    /\ Len(par.concatList) = par.n
    /\ \A k \in 1..par.n : par.concatList[k] = k

\* Three clips whose transcoders closed in the order 3, 1, 2.
C15_Witness ==
  /\ par.pc = "concat"
  /\ par.finished = <<3, 1, 2>>
  /\ par.concatList = <<1, 2, 3>>

\* C15 for the sequential loop of processAutoStitch: the list handed to
\* stitchClips holds one segment per clip, in the order of the clips, and
\* every overlay transcoder has closed with code 0 by then.
C15_SequentialConcatOrder ==
  (plan.built /\ plan.mode = "auto-stitch") =>
    /\ Len(plan.concatList) = req.filePaths.len
    /\ \A k \in 1..Len(plan.concatList) :
         /\ plan.concatList[k] = <<"proc", k - 1>>
         /\ Succeeded("overlay", k - 1)

\* C16: a request whose videoMode is neither 'auto-stitch' nor 'pre-edited'
\* is answered 400 and no work is done for it.
C16_InvalidModeRejected ==
  (req.videoMode \notin {"none", "auto-stitch", "pre-edited"}) =>
    /\ pc = "rejected"
    /\ NoWorkDone

\* The longest diagnostic text a failure message may carry.
DiagnosticBound == 500

\* C17: a transcoder run that closes with a non-zero code fails the job,
\* and the message of its error carries at most DiagnosticBound characters
\* of the captured diagnostic text (all of it when it is shorter).
C17_DiagnosticTruncated ==
  \A k \in 1..Len(ffmpegLog) :
    ffmpegLog[k].code # 0 =>
      /\ k = Len(ffmpegLog)
      /\ error = ffmpegLog[k].kind
      /\ pc \in {"fail_status", "fail_notify", "done"}
      /\ ffmpegLog[k].diag <= DiagnosticBound
      /\ ffmpegLog[k].diag <= ffmpegLog[k].stderr
      /\ ffmpegLog[k].stderr > 0 => ffmpegLog[k].diag > 0

\* checkStatus: the status a polling client is answered, PENDING while the
\* status object does not exist.
checkStatus == IF statusFile = NoStatus THEN "PENDING" ELSE statusFile.status

\* The job has been accepted and has not yet made its last status update.
JobRunning == pc \notin {"idle", "rejected", "ready_notify", "fail_notify", "done"}

\* C18: every status update but the last of an ended job is PROCESSING with
\* a progress below 100; READY or FAILED is written only as the last
\* update, after every stage; while the job runs checkStatus answers PENDING
\* or PROCESSING.
C18_ProgressNeverTerminal ==
  /\ \A k \in 1..Len(statusLog) :
       IF IsTerminal(statusLog[k])
       THEN k = Len(statusLog) /\ ~JobRunning
       ELSE /\ statusLog[k].status = "PROCESSING"
            /\ statusLog[k].progress >= 0
            /\ statusLog[k].progress < 100
  /\ JobRunning =>
       /\ \A k \in 1..Len(statusLog) : ~IsTerminal(statusLog[k])
       /\ checkStatus \in {"PENDING", "PROCESSING"}
       /\ checkStatus = "PROCESSING" => statusFile.progress < 100

\* Both uploads are in flight and a poll is answered PROCESSING, 90.
C18_Witness ==
  /\ pc = "upload"
  /\ \A u \in Uploads : up[u] = "flight"
  /\ checkStatus = "PROCESSING"
  /\ statusFile.progress = 90
  /\ Len(statusLog) >= 4

IsPad(l) == l[1] = "in"

\* The places (part, position) where label l is read, the parts that write it.
Readers(parts, l) ==
  {pq \in (1..Len(parts)) \X (1..2) :
     pq[2] <= Len(parts[pq[1]].ins) /\ parts[pq[1]].ins[pq[2]] = l}

Writers(parts, l) == {p \in 1..Len(parts) : parts[p].out = l}

\* C20: in the filter graph of processPreEdited the source is scaled first,
\* the base overlay composited onto it, and overlay step k composited onto
\* the output of the step before it; every label is written by exactly one
\* part and read by exactly one later part, but the label of the last step,
\* which is the mapped output; step k reads transcoder input k + 2, the
\* k-th rank overlay generated; the steps follow the marks in ascending
\* order and the rank indices descend to 0.
C20_LinearChain ==
  PreEditedPlanBuilt =>
    LET parts == plan.filterParts
        chain == plan.chain
        len == Len(chain)
        s == plan.sortedTimestamps IN
    /\ Len(parts) = 3 + 2 * len
    /\ parts[1] = [ins |-> << <<"in", 0>> >>, out |-> <<"base_v">>]
    /\ parts[3].ins[1] = <<"base_v">> /\ parts[3].out = <<"v_base">>
    /\ \A p \in 1..Len(parts) :
         /\ Cardinality(Writers(parts, parts[p].out)) = 1
         /\ Cardinality(Readers(parts, parts[p].out))
              = IF parts[p].out = plan.mapped THEN 0 ELSE 1
         /\ \A pq \in Readers(parts, parts[p].out) : pq[1] > p
         /\ \A q \in 1..Len(parts[p].ins) :
              IsPad(parts[p].ins[q]) \/ Writers(parts, parts[p].ins[q]) # {}
    /\ plan.mapped = parts[Len(parts)].out
    /\ \A k \in 1..len :
         /\ parts[3 + 2 * k].ins[1] = parts[3 + 2 * (k - 1)].out
         /\ parts[2 + 2 * k].ins = << <<"in", (k - 1) + 2>> >>
         /\ parts[3 + 2 * k].ins[2] = parts[2 + 2 * k].out
         /\ plan.inputArgs[(k - 1) + 2 + 1] = rankPaths[k].path
         /\ chain[k].rankIndex = rankPaths[k].rankIndex
         /\ chain[k].rankIndex = len - k
    /\ \A a, b \in 1..len : (a <= b /\ b <= Len(s)) => chain[a].start <= chain[b].start

\* Three ranks on two marks: nine parts, the last one writes the mapped
\* label [v2] and shows rank index 0.
C20_Witness ==
  /\ PreEditedPlanBuilt
  /\ pc = "pe_ffmpeg"
  /\ req.ranks = 3
  /\ plan.sortedTimestamps = <<5, 20>>
  /\ Len(plan.filterParts) = 9
  /\ plan.filterParts[9] = [ins |-> << <<"v", 1>>, <<"r", 2>> >>, out |-> <<"v", 2>>]
  /\ plan.mapped = <<"v", 2>>
  /\ plan.chain[3].rankIndex = 0

\* C21: in a non-fallback result the returned size is the largest attempted
\* size (initial, initial - 2, ... down to 1) at which the word wrap needs at
\* most maxLines lines: it is an attempted size, it fits, and no larger
\* attempted size fits.
C21_LargestFittingSize ==
  (FitCalled /\ SomeSizeFits(fitArgs)) =>
    /\ DOMAIN fitRes = {"fontSize", "lines"}
    /\ fitRes.fontSize \in AttemptedSizes(fitArgs.initialFontSize)
    /\ LinesAt(fitArgs, fitRes.fontSize) <= fitArgs.maxLines
    /\ \A fs \in AttemptedSizes(fitArgs.initialFontSize) :
         fs > fitRes.fontSize => LinesAt(fitArgs, fs) > fitArgs.maxLines

\* The initial size does not fit and the next one does.
C21_Witness ==
  /\ fitArgs.impl = "part_002"
  /\ fitArgs.text = <<"a", "a">>
  /\ fitArgs.boxWidth = 6
  /\ fitArgs.maxLines = 1
  /\ fitArgs.initialFontSize = 5
  /\ fitRes = [fontSize |-> 3, lines |-> << <<"a", "a">> >>]
\* The width the called fitTextToBox measures for a line at a size.
MeasureAt(a, line, fs) ==
  IF a.impl = "index.js" THEN measureText("CustomFont", fs, line)
  ELSE measureMixedText(line, fs)

\* The words of the lines, in order.
RECURSIVE WordsOfLines(_, _)
WordsOfLines(lines, k) ==
  IF k > Len(lines) THEN <<>> ELSE split(lines[k]) \o WordsOfLines(lines, k + 1)

\* A text of non-empty words separated by single spaces.
PlainWords(text) == \A k \in 1..Len(split(text)) : split(text)[k] # <<>>

\* C22: in a non-fallback result the returned lines are the greedy word wrap
\* of the text at the returned size: no line is empty, the words of the lines
\* are the words of the text in order, a line of more than one word is no
\* wider than the box, and the first word of the next line would not have
\* fitted on the line before it; also when the first word is wider than the
\* box.
C22_GreedyWrapLines ==
  (FitCalled /\ SomeSizeFits(fitArgs) /\ PlainWords(fitArgs.text)) =>
    LET lines == fitRes.lines
        fs == fitRes.fontSize
    IN
    /\ \A k \in 1..Len(lines) : lines[k] # <<>>
    /\ WordsOfLines(lines, 1) = split(fitArgs.text)
    /\ \A k \in 1..Len(lines) :
         \/ Len(split(lines[k])) = 1
         \/ MeasureAt(fitArgs, lines[k], fs) <= fitArgs.boxWidth
    /\ \A k \in 1..(Len(lines) - 1) :
         MeasureAt(fitArgs, joinTest(lines[k], split(lines[k + 1])[1]), fs)
           > fitArgs.boxWidth

\* The same statement for the fitTextToBox of index.js alone.
C22_GreedyWrapLinesIndex ==
  fitArgs.impl = "index.js" => C22_GreedyWrapLines
\* C23: segmentTextByFont returns maximal runs: no segment has empty text,
\* every character of a segment has the font recorded for the segment, two
\* adjacent segments have different fonts, and the empty string yields no
\* segment.
C23_MaximalRuns ==
  Segmented =>
    LET segs == drawRes.segments IN
    /\ \A k \in 1..Len(segs) :
         /\ segs[k].text # <<>>
         /\ \A n \in 1..Len(segs[k].text) :
              getFontForChar(segs[k].text[n]) = segs[k].font
    /\ \A k \in 1..(Len(segs) - 1) : segs[k].font # segs[k + 1].font
    /\ drawArgs.text = <<>> => segs = <<>>

\* A run of two characters of one font followed by two runs of one.
C23_Witness ==
  /\ Segmented
  /\ drawArgs.text = <<"c", "c", " ", "e">>
  /\ Len(drawRes.segments) = 3
  /\ drawRes.segments[1] = [text |-> <<"c", "c">>, font |-> "Noto Sans CJK SC"]
\* An overlay of the job has been rendered or a transcoder invoked for it.
RenderingBegun ==
  \/ overlays # <<>>
  \/ ffmpegLog # <<>>
  \/ \E f \in disk : f[1] \in {"ov", "proc", "list", "final"}
  \/ pc \in {"as_overlay", "as_stitch", "thumbnail"}

\* C24: in processAutoStitch the downloads complete in any order and are
\* joined before rendering: no overlay is rendered and no transcoder invoked
\* until every download of the job has completed, and once a download has
\* failed nothing is rendered at all.
C24_DownloadsJoinedBeforeRender ==
  IsAutoStitch =>
    /\ (RenderingBegun \/ pc \in {"as_clip_status", "as_render"}) =>
         \A k \in DOMAIN dl : dl[k] = "ok"
    /\ (\E k \in DOMAIN dl : dl[k] = "fail") => ~RenderingBegun

\* The second clip arrived before the first and the first overlay is rendered.
C24_Witness ==
  /\ IsAutoStitch
  /\ req.filePaths.len = 2
  /\ Len(tempFiles) >= 2
  /\ tempFiles[1] = <<"in", 1>>
  /\ tempFiles[2] = <<"in", 0>>
  /\ Len(overlays) = 1
  /\ pc = "as_overlay"
\* C25: the shared emoji cache is never corrupted, whatever the interleaving
\* of the jobs' drawing and their clears: every entry holds a bitmap that a
\* successful load fetched for the entry's own key (so a failed load has
\* inserted nothing), a key has at most one entry however often it was
\* fetched, and every bitmap a lookup returned was fetched for the key
\* looked up.
C25_CacheNeverCorrupted ==
  /\ \A e \in cch.cache : e.img \in cch.loaded /\ e.img.of = e.url
  /\ \A e1, e2 \in cch.cache : e1.url = e2.url => e1 = e2
  /\ \A g \in cch.got : g.img \in cch.loaded /\ g.img.of = g.url

\* Both jobs missed the same key and fetched it, a load has failed and a
\* clear has run; the cache holds the one entry of the later fetch.
C25_Witness ==
  /\ Cardinality({b \in cch.loaded : b.of = "u1"}) >= 2
  /\ cch.failed >= 1
  /\ cch.clears >= 1
  /\ cch.got # {}
  /\ Cardinality(cch.cache) = 1
  /\ \E e \in cch.cache : e.url = "u1"
\* C26: in processPreEdited, whatever the number of marks (at least one) and
\* the number of ranks, the window of every rank overlay starts at the time
\* of one of the supplied marks, so no rank is visible before the earliest
\* mark.
C26_WindowsStartAtMarks ==
  PreEditedPlanBuilt =>
    \A k \in 1..Len(plan.chain) :
      /\ plan.chain[k].start \in Range(req.timestamps.marks)
      /\ plan.chain[k].start >= plan.sortedTimestamps[1]

\* The same statement for the requests with at least as many marks as ranks.
C26_WindowsStartAtMarksEnoughMarks ==
  (PreEditedPlanBuilt /\ Len(req.timestamps.marks) >= req.ranks) =>
    C26_WindowsStartAtMarks
\* The rank indices the rank loop of createTextOverlayImage reads when run
\* to its end with these arguments.
IndicesRead(len, ranksToShow) ==
  {shownIdx(len, ranksToShow, k) : k \in 0..(ranksToShow - 1)}

\* C27: in processAutoStitch, whatever the number of clips and of ranks,
\* every rank index the overlay renderer is called to read lies in 0..L-1.
C27_RankIndexInRange ==
  (IsAutoStitch /\ pc = "as_render") =>
    IndicesRead(req.ranks, ranksToShowOf(i)) \subseteq 0..(req.ranks - 1)

\* The same statement for the jobs with no more clips than ranks.
C27_RankIndexInRangeEnoughRanks ==
  (IsAutoStitch /\ req.filePaths.len <= req.ranks) => C27_RankIndexInRange
\* The finally block has run and no download or upload is still in flight.
AllSettled ==
  /\ pc = "done"
  /\ \A k \in DOMAIN dl : dl[k] # "flight"
  /\ \A u \in Uploads : up[u] # "flight"

\* C28: in processAutoStitch, under every interleaving of the parallel
\* downloads, once every operation of the job has settled no file written
\* by a download of the job is on disk.
C28_DownloadedFilesCleaned ==
  (IsAutoStitch /\ AllSettled) => \A f \in disk : f[1] # "in"

\* The same statement for the jobs none of whose downloads failed.
C28_DownloadedFilesCleanedNoFailure ==
  (IsAutoStitch /\ \A k \in DOMAIN dl : dl[k] # "fail") =>
    C28_DownloadedFilesCleaned
\* The job has reported FAILED to the status object or to the webhook.
ReportedFailed ==
  \/ \E k \in 1..Len(statusLog) : statusLog[k].status = "FAILED"
  \/ \E k \in 1..Len(webhookLog) : webhookLog[k].status = "FAILED"

\* C29: publishing is all-or-nothing with respect to the reported outcome:
\* if the job is reported FAILED, neither its final video nor its thumbnail
\* has been uploaded to the output buckets.
C29_FailedMeansNothingPublished ==
  ReportedFailed => \A u \in Uploads : up[u] # "ok"

\* The same statement for the jobs that failed before the uploads started.
C29_FailedBeforeUploadNothingPublished ==
  (ReportedFailed /\ error # "upload") => \A u \in Uploads : up[u] # "ok"
\* The handler has accepted the request and entered a pipeline.
Accepted == pc \notin {"idle", "rejected"}

\* C30: every accepted job eventually has reported a terminal state (READY
\* or FAILED) and run its finally block, given that every external operation
\* eventually completes or fails; also when a transcoder process cannot be
\* spawned.
C30_JobTerminates ==
  Accepted ~> (pc = "done" /\ TerminalReports # <<>>)

\* A job ended FAILED on a transcoder that could not be spawned.
C30_Witness ==
  /\ pc = "done"
  /\ error = "spawn"
  /\ Len(TerminalReports) = 1
  /\ TerminalReports[1].status = "FAILED"
  /\ \A k \in DOMAIN dl : dl[k] # "flight"
====
